---------------------------- MODULE Spec2Model ----------------------------
(***************************************************************************)
(* Model of the Impossible Cloud bucket policy generator                   *)
(* (src/policy-generator.js).                                              *)
(*                                                                         *)
(* JavaScript strings are sequences of one-character strings, so that      *)
(* startsWith / includes / split / trim / regular expressions and the      *)
(* JSON text written to and read from the output pane are computed, not    *)
(* assumed.  Messages pushed on errors / warnings lists are TLA+ strings   *)
(* with the wording of the source (non-ASCII glyphs dropped).              *)
(***************************************************************************)
EXTENDS Integers, Sequences, FiniteSets, TLC

VARIABLES
    bucketName,            \* #bucketName .value
    policyEffect,          \* #policyEffect .value
    principal,             \* #principal .value
    resourcePath,          \* #resourcePath .value
    customActions,         \* #customActions .value
    condition,             \* #condition .value
    checked,               \* values of the checked checkboxes, in document order
    currentPolicy,         \* the global currentPolicy (a JSON value, JNull when null)
    policyOutput,          \* #policyOutput .textContent
    notification,          \* what showNotification last displayed
    now,                   \* Date.now(), in milliseconds
    verdict,               \* errors / warnings collected by the last validatePolicy
    bucketNameValidation,  \* what is shown under the bucket name field
    principalValidation,   \* what is shown under the principal field
    principalVerdict,      \* what the last call of validatePrincipalARN returned
    timeout,               \* the variable timeout of the debounced bucket validation (0: undefined)
    timers,                \* the timers set with setTimeout that are still pending
    called,                \* the calls of the debounced function so far: time and arguments
    invoked                \* the invocations of the function it wraps so far

debouncer == <<timeout, timers, called, invoked>>
form == <<bucketName, policyEffect, principal, resourcePath, customActions,
          condition, checked>>
vars == <<bucketName, policyEffect, principal, resourcePath, customActions,
          condition, checked, currentPolicy, policyOutput, notification, now,
          verdict, bucketNameValidation, principalValidation, principalVerdict,
          timeout, timers, called, invoked>>

---------------------------------------------------------------------------
(* Character classes and string primitives of the JavaScript runtime.      *)

Lower == {"a","b","c","d","e","f","g","h","i","j","k","l","m",
          "n","o","p","q","r","s","t","u","v","w","x","y","z"}
Upper == {"A","B","C","D","E","F","G","H","I","J","K","L","M",
          "N","O","P","Q","R","S","T","U","V","W","X","Y","Z"}
Digit == {"0","1","2","3","4","5","6","7","8","9"}
WhiteSpace == {" ", "\n", "\t", "\r"}

AllIn(s, class) == \A i \in 1..Len(s) : s[i] \in class

\* s.substring(from - 1, to) with 1-based inclusive bounds
Slice(s, from, to) == SubSeq(s, from, to)

StartsWith(s, p) == Len(p) <= Len(s) /\ Slice(s, 1, Len(p)) = p
EndsWith(s, p) == Len(p) <= Len(s) /\ Slice(s, Len(s) - Len(p) + 1, Len(s)) = p
Includes(s, p) == \E i \in 1..(Len(s) - Len(p) + 1) : Slice(s, i, i + Len(p) - 1) = p

\* first index >= from of a character in class, Len(s) + 1 when there is none
FirstIn(s, from, class) ==
    IF \E j \in from..Len(s) : s[j] \in class
    THEN CHOOSE j \in from..Len(s) : s[j] \in class /\ \A k \in from..(j - 1) : s[k] \notin class
    ELSE Len(s) + 1

\* first index >= from of a character outside class, Len(s) + 1 when there is none
FirstNotIn(s, from, class) ==
    IF \E j \in from..Len(s) : s[j] \notin class
    THEN CHOOSE j \in from..Len(s) : s[j] \notin class /\ \A k \in from..(j - 1) : s[k] \in class
    ELSE Len(s) + 1

\* last index of a character outside class, 0 when there is none
LastNotIn(s, class) ==
    IF \E j \in 1..Len(s) : s[j] \notin class
    THEN CHOOSE j \in 1..Len(s) : s[j] \notin class /\ \A k \in (j + 1)..Len(s) : s[k] \in class
    ELSE 0

\* first index >= from at which the character c occurs, 0 when there is none
IndexOfFrom(s, c, from) ==
    IF FirstIn(s, from, {c}) > Len(s) THEN 0 ELSE FirstIn(s, from, {c})

\* s.split(c) for a one-character separator: always at least one part
RECURSIVE Split(_, _)
Split(s, c) ==
    LET i == IndexOfFrom(s, c, 1)
    IN  IF i = 0 THEN <<s>>
        ELSE <<Slice(s, 1, i - 1)>> \o Split(Slice(s, i + 1, Len(s)), c)

\* parts.join(c)
RECURSIVE Join(_, _)
Join(parts, c) ==
    IF parts = <<>> THEN <<>>
    ELSE IF Len(parts) = 1 THEN parts[1]
    ELSE parts[1] \o <<c>> \o Join(Tail(parts), c)

\* s.trim(): from the first to the last character that is not white space
Trim(s) == Slice(s, FirstNotIn(s, 1, WhiteSpace), LastNotIn(s, WhiteSpace))

\* the text of a string inside a template literal `...${s}...`
RECURSIVE Text(_)
Text(s) ==
    IF Len(s) = 0 THEN ""
    ELSE IF Len(s) = 1 THEN s[1]
    ELSE Text(Slice(s, 1, Len(s) \div 2)) \o Text(Slice(s, Len(s) \div 2 + 1, Len(s)))

\* String(n) for a non-negative integer n
RECURSIVE Decimal(_)
Decimal(n) ==
    LET d == <<"0","1","2","3","4","5","6","7","8","9">>[(n % 10) + 1]
    IN  IF n < 10 THEN <<d>> ELSE Decimal(n \div 10) \o <<d>>

\* c repeated n times ('a'.repeat(n))
Repeat(c, n) == [i \in 1..n |-> c]

---------------------------------------------------------------------------
(* Bounds of the model and literals of the source.                         *)

\* bounds of the model
MaxNow == 1            \* the clock runs from 0 to MaxNow
MaxTypedLen == 3       \* bucket names typed character by character
Quantum == 150         \* while a validation is debounced the clock advances by Quantum
MaxElapsed == 900      \* up to MaxElapsed
MaxCalls == 3          \* input events dispatched on the bucket name field

\* the delay of the debounced validations, in milliseconds
Wait == 300

MinBucketLen == 3
MaxBucketLen == 63

\* String literals of the source, spelled as character sequences.
\* K: the field names of a policy document
K ==
    [ Version |-> <<"V","e","r","s","i","o","n">>,
      Id |-> <<"I","d">>,
      Statement |-> <<"S","t","a","t","e","m","e","n","t">>,
      Sid |-> <<"S","i","d">>,
      Effect |-> <<"E","f","f","e","c","t">>,
      Principal |-> <<"P","r","i","n","c","i","p","a","l">>,
      NotPrincipal |-> <<"N","o","t","P","r","i","n","c","i","p","a","l">>,
      Action |-> <<"A","c","t","i","o","n">>,
      NotAction |-> <<"N","o","t","A","c","t","i","o","n">>,
      Resource |-> <<"R","e","s","o","u","r","c","e">>,
      NotResource |-> <<"N","o","t","R","e","s","o","u","r","c","e">>,
      Condition |-> <<"C","o","n","d","i","t","i","o","n">> ]

\* S: the other string literals the handlers compare against or build with
S ==
    [ xn |-> <<"x","n","-","-">>,
      user |-> <<"u","s","e","r">>, policy |-> <<"p","o","l","i","c","y">>,
      role |-> <<"r","o","l","e">>, group |-> <<"g","r","o","u","p">>,
      s3alias |-> <<"-","s","3","a","l","i","a","s">>,
      Allow |-> <<"A","l","l","o","w">>,
      Deny |-> <<"D","e","n","y">>,
      Version2012 |-> <<"2","0","1","2","-","1","0","-","1","7">>,
      Version2008 |-> <<"2","0","0","8","-","1","0","-","1","7">>,
      ArnPrefix |-> <<"a","r","n",":","a","w","s",":","s","3",":",":",":">>,
      GeneratedPolicy |-> <<"G","e","n","e","r","a","t","e","d","P","o","l","i","c","y">>,
      ListBucket |-> <<"s","3",":","L","i","s","t","B","u","c","k","e","t">>,
      GetBucket |-> <<"s","3",":","G","e","t","B","u","c","k","e","t">>,
      PutBucket |-> <<"s","3",":","P","u","t","B","u","c","k","e","t">>,
      Object |-> <<"O","b","j","e","c","t">>,
      s3 |-> <<"s","3">>,
      Star |-> <<"*">>,
      ForAllValues |-> <<"F","o","r","A","l","l","V","a","l","u","e","s",":">>,
      ForAnyValue |-> <<"F","o","r","A","n","y","V","a","l","u","e",":">>,
      arnColon |-> <<"a","r","n",":">>,
      ipcld |-> <<"i","p","c","l","d">>,
      iam |-> <<"i","a","m">>,
      sts |-> <<"s","t","s">>,
      root |-> <<"r","o","o","t">>,
      amazonaws |-> <<".","a","m","a","z","o","n","a","w","s",".","c","o","m">>,
      amazon |-> <<".","a","m","a","z","o","n",".","c","o","m">> ]

---------------------------------------------------------------------------
(* validateBucketName: ten rules, all evaluated, messages in rule order.   *)

BucketCharset == Lower \cup Digit \cup {".", "-"}
BucketEdge == Lower \cup Digit

\* four groups of digits of any length
IsIPShape_AnyLength(s) ==
    /\ Len(Split(s, ".")) = 4
    /\ \A i \in 1..4 : Len(Split(s, ".")[i]) >= 1 /\ AllIn(Split(s, ".")[i], Digit)

\* /^(\d{1,3}\.){3}\d{1,3}$/
IsIPShape(s) ==
    LET groups == Split(s, ".")
    IN  /\ Len(groups) = 4
        /\ \A i \in 1..4 : Len(groups[i]) \in 1..3 /\ AllIn(groups[i], Digit)

\* the length test with the limit itself excluded
TooLong_Inclusive(bucketName_) == Len(bucketName_) >= MaxBucketLen
TooLong(bucketName_) == Len(bucketName_) > MaxBucketLen

If(cond, msg) == IF cond THEN <<msg>> ELSE <<>>

bucketNameErrors(bucketName_) ==
            If(Len(bucketName_) < MinBucketLen, "Bucket name must be at least 3 characters long")
         \o If(TooLong(bucketName_), "Bucket name cannot exceed 63 characters")
         \* !/^[a-z0-9.-]+$/.test(bucketName)
         \o If(~(Len(bucketName_) >= 1 /\ AllIn(bucketName_, BucketCharset)),
               "Bucket name can only contain lowercase letters, numbers, dots (.), and hyphens (-)")
         \* !/^[a-z0-9]/.test(bucketName)
         \o If(~(Len(bucketName_) >= 1 /\ bucketName_[1] \in BucketEdge),
               "Bucket name must begin with a lowercase letter or number")
         \* !/[a-z0-9]$/.test(bucketName)
         \o If(~(Len(bucketName_) >= 1 /\ bucketName_[Len(bucketName_)] \in BucketEdge),
               "Bucket name must end with a lowercase letter or number")
         \o If(IsIPShape(bucketName_),
               "Bucket name cannot be formatted as an IP address (e.g., 192.168.1.1)")
         \o If(StartsWith(bucketName_, S.xn), "Bucket name cannot start with \"xn--\"")
         \o If(EndsWith(bucketName_, S.s3alias), "Bucket name cannot end with \"-s3alias\"")
         \o If(Includes(bucketName_, <<".", ".">>),
               "Bucket name cannot contain two adjacent periods (..)")
         \o If(Includes(bucketName_, <<".", "-">>) \/ Includes(bucketName_, <<"-", ".">>),
               "Bucket name cannot have a period adjacent to a hyphen")
         \* /[A-Z]/.test(bucketName)
         \o If(\E i \in 1..Len(bucketName_) : bucketName_[i] \in Upper,
               "Bucket name cannot contain uppercase letters")
         \o If(Includes(bucketName_, <<"_">>), "Bucket name cannot contain underscores (_)")

\* { isValid: errors.length === 0, errors }
validateBucketName(bucketName_) ==
    [isValid |-> bucketNameErrors(bucketName_) = <<>>, errors |-> bucketNameErrors(bucketName_)]

---------------------------------------------------------------------------
(* JavaScript values.  Every value is a record of one shape: t is the      *)
(* type tag, s the text of a string, n a number, b a boolean, and for an   *)
(* array a holds the items; for an object k holds the own keys in          *)
(* insertion order and a the values at the same positions.                 *)

JValue(t_, s_, n_, b_, k_, a_) ==
    [t |-> t_, s |-> s_, n |-> n_, b |-> b_, k |-> k_, a |-> a_]
JUndefined == JValue("undefined", <<>>, 0, FALSE, <<>>, <<>>)
JNull == JValue("null", <<>>, 0, FALSE, <<>>, <<>>)
JBool(b_) == JValue("boolean", <<>>, 0, b_, <<>>, <<>>)
JNum(n_) == JValue("number", <<>>, n_, FALSE, <<>>, <<>>)
JStr(s_) == JValue("string", s_, 0, FALSE, <<>>, <<>>)
JArr(items) == JValue("array", <<>>, 0, FALSE, <<>>, items)
JObj(keys, vals) == JValue("object", <<>>, 0, FALSE, keys, vals)

\* typeof v
TypeOf(v) ==
    CASE v.t = "undefined" -> "undefined"
      [] v.t = "boolean" -> "boolean"
      [] v.t = "number" -> "number"
      [] v.t = "string" -> "string"
      [] OTHER -> "object"

IsArray(v) == v.t = "array"

\* ToBoolean(v): the truthiness tested by if (v) and !v
Truthy(v) ==
    CASE v.t \in {"undefined", "null"} -> FALSE
      [] v.t = "boolean" -> v.b
      [] v.t = "number" -> v.n # 0
      [] v.t = "string" -> v.s # <<>>
      [] OTHER -> TRUE

KeyIndex(v, key) ==
    IF \E i \in 1..Len(v.k) : v.k[i] = key
    THEN CHOOSE i \in 1..Len(v.k) : v.k[i] = key
    ELSE 0

\* v[key] for an own property of an object; undefined when absent.  (The
\* lookups the program makes use capitalised names, which no prototype
\* defines, so on an array, string, number or boolean they are undefined.)
Get(v, key) ==
    IF v.t = "object" /\ KeyIndex(v, key) # 0 THEN v.a[KeyIndex(v, key)]
    ELSE JUndefined

\* obj[key] = val: replaces in place, or appends a new own key
SetKey(obj, key, val) ==
    IF KeyIndex(obj, key) # 0
    THEN [obj EXCEPT !.a[KeyIndex(obj, key)] = val]
    ELSE [obj EXCEPT !.k = Append(@, key), !.a = Append(@, val)]

\* Object.keys(v): own enumerable string keys
ObjectKeys(v) ==
    CASE v.t = "object" -> v.k
      [] v.t = "array" -> [i \in 1..Len(v.a) |-> Decimal(i - 1)]
      [] v.t = "string" -> [i \in 1..Len(v.s) |-> Decimal(i - 1)]
      [] OTHER -> <<>>

---------------------------------------------------------------------------
(* JSON.stringify(value, null, 2)                                          *)

IndentStep == 2

EscapeChar(c) ==
    CASE c = "\"" -> <<"\\", "\"">>
      [] c = "\\" -> <<"\\", "\\">>
      [] c = "\n" -> <<"\\", "n">>
      [] c = "\t" -> <<"\\", "t">>
      [] c = "\r" -> <<"\\", "r">>
      [] OTHER -> <<c>>

RECURSIVE EscapeAll(_)
EscapeAll(s) ==
    IF Len(s) = 0 THEN <<>>
    ELSE IF Len(s) = 1 THEN EscapeChar(s[1])
    ELSE EscapeAll(Slice(s, 1, Len(s) \div 2))
         \o EscapeAll(Slice(s, Len(s) \div 2 + 1, Len(s)))

Quote(s) == <<"\"">> \o EscapeAll(s) \o <<"\"">>

NumberText(n) == IF n < 0 THEN <<"-">> \o Decimal(0 - n) ELSE Decimal(n)

RECURSIVE Stringify(_, _)
RECURSIVE StringifyItems(_, _, _)

\* the items of array / object v from position i on, one per line
StringifyItems(v, i, ind) ==
    IF i > Len(v.a) THEN <<>>
    ELSE Repeat(" ", ind)
         \o (IF v.t = "object" THEN Quote(v.k[i]) \o <<":", " ">> ELSE <<>>)
         \o Stringify(v.a[i], ind)
         \o (IF i < Len(v.a) THEN <<",">> ELSE <<>>)
         \o <<"\n">>
         \o StringifyItems(v, i + 1, ind)

Stringify(v, ind) ==
    CASE v.t = "null" -> <<"n","u","l","l">>
      [] v.t = "boolean" ->
            IF v.b THEN <<"t","r","u","e">> ELSE <<"f","a","l","s","e">>
      [] v.t = "number" -> NumberText(v.n)
      [] v.t = "string" -> Quote(v.s)
      [] v.t = "array" ->
            IF v.a = <<>> THEN <<"[", "]">>
            ELSE <<"[", "\n">> \o StringifyItems(v, 1, ind + IndentStep)
                 \o Repeat(" ", ind) \o <<"]">>
      [] v.t = "object" ->
            IF v.a = <<>> THEN <<"{", "}">>
            ELSE <<"{", "\n">> \o StringifyItems(v, 1, ind + IndentStep)
                 \o Repeat(" ", ind) \o <<"}">>

JSONstringify(v) == Stringify(v, 0)

---------------------------------------------------------------------------
(* JSON.parse(text): a recursive-descent parser for JSON with integer      *)
(* number literals and the escapes \" \\ \/ \n \t \r.  A result is         *)
(* [ok, v, i]: whether a value was read, the value, and the index after    *)
(* it.  ok = FALSE is the SyntaxError JSON.parse throws.                   *)

PFail == [ok |-> FALSE, v |-> JNull, i |-> 0]
POk(v_, i_) == [ok |-> TRUE, v |-> v_, i |-> i_]

\* the index of the first character at or after i that is not white space
SkipWs(s, i) == FirstNotIn(s, i, {" ", "\n", "\t", "\r"})

Unescape(c) ==
    CASE c = "n" -> "\n"
      [] c = "t" -> "\t"
      [] c = "r" -> "\r"
      [] OTHER -> c

RECURSIVE ParseChars(_, _, _)

\* j is at the first quote, backslash or control character at or after i
CharsUpTo(s, i, j, acc) ==
    IF j > Len(s) THEN PFail
    ELSE IF s[j] = "\"" THEN POk(JStr(acc \o Slice(s, i, j - 1)), j + 1)
    ELSE IF s[j] = "\\" /\ j + 1 <= Len(s) /\ s[j + 1] \in {"\"", "\\", "/", "n", "t", "r"}
    THEN ParseChars(s, j + 2, acc \o Slice(s, i, j - 1) \o <<Unescape(s[j + 1])>>)
    ELSE PFail

\* the characters of a string literal after its opening quote
ParseChars(s, i, acc) ==
    CharsUpTo(s, i, FirstIn(s, i, {"\"", "\\", "\n", "\t", "\r"}), acc)

RECURSIVE ParseDigits(_, _, _)
ParseDigits(s, i, acc) ==
    IF i <= Len(s) /\ s[i] \in Digit
    THEN ParseDigits(s, i + 1, acc * 10 + (CHOOSE d \in 0..9 : Decimal(d) = <<s[i]>>))
    ELSE POk(JNum(acc), i)

\* -?(0|[1-9][0-9]*)
Unsigned(s, j) ==
    IF j > Len(s) \/ s[j] \notin Digit THEN PFail
    ELSE IF s[j] = "0" THEN POk(JNum(0), j + 1)
    ELSE ParseDigits(s, j, 0)

ParseNumber(s, i) ==
    IF i <= Len(s) /\ s[i] = "-"
    THEN IF Unsigned(s, i + 1).ok
         THEN POk(JNum(0 - Unsigned(s, i + 1).v.n), Unsigned(s, i + 1).i)
         ELSE PFail
    ELSE Unsigned(s, i)

ParseWord(s, i, word, v) ==
    IF i + Len(word) - 1 <= Len(s) /\ Slice(s, i, i + Len(word) - 1) = word
    THEN POk(v, i + Len(word)) ELSE PFail

RECURSIVE ParseValue(_, _)
RECURSIVE ParseElements(_, _, _)
RECURSIVE ParseMembers(_, _, _)

\* after an array item: j is at the "," or "]" that must follow it
ElementEnd(s, j, items) ==
    IF j > Len(s) THEN PFail
    ELSE IF s[j] = "," THEN ParseElements(s, j + 1, items)
    ELSE IF s[j] = "]" THEN POk(JArr(items), j + 1)
    ELSE PFail

\* r is the result of reading one array item
AfterElement(s, r, acc) ==
    IF ~r.ok THEN PFail ELSE ElementEnd(s, SkipWs(s, r.i), Append(acc, r.v))

\* array items after "[" or ",": i is at the start of an item
ParseElements(s, i, acc) == AfterElement(s, ParseValue(s, SkipWs(s, i)), acc)

\* after an object member: j is at the "," or "}" that must follow it
MemberEnd(s, j, obj) ==
    IF j > Len(s) THEN PFail
    ELSE IF s[j] = "," THEN ParseMembers(s, j + 1, obj)
    ELSE IF s[j] = "}" THEN POk(obj, j + 1)
    ELSE PFail

\* r is the result of reading the value of the member called name
AfterMember(s, r, name, acc) ==
    IF ~r.ok THEN PFail ELSE MemberEnd(s, SkipWs(s, r.i), SetKey(acc, name, r.v))

\* ci is at the ":" that must follow the key
MemberValue(s, name, ci, acc) ==
    IF ci <= Len(s) /\ s[ci] = ":"
    THEN AfterMember(s, ParseValue(s, SkipWs(s, ci + 1)), name, acc)
    ELSE PFail

\* key is the result of reading the member's key
MemberColon(s, key, acc) ==
    IF ~key.ok THEN PFail ELSE MemberValue(s, key.v.s, SkipWs(s, key.i), acc)

\* ki is at the opening quote of the key
MemberKey(s, ki, acc) ==
    IF ki <= Len(s) /\ s[ki] = "\"" THEN MemberColon(s, ParseChars(s, ki + 1, <<>>), acc)
    ELSE PFail

\* object members after "{" or ",": i is at the start of a member
ParseMembers(s, i, acc) == MemberKey(s, SkipWs(s, i), acc)

\* the first token after "{" or "[" is at j: a closing bracket, or a member
\* or an element
Opened(s, j, close, empty, rest) ==
    IF j <= Len(s) /\ s[j] = close THEN POk(empty, j + 1) ELSE rest

ParseValue(s, i) ==
    IF i > Len(s) THEN PFail
    ELSE CASE s[i] = "\"" -> ParseChars(s, i + 1, <<>>)
           [] s[i] = "{" ->
                Opened(s, SkipWs(s, i + 1), "}", JObj(<<>>, <<>>),
                       ParseMembers(s, i + 1, JObj(<<>>, <<>>)))
           [] s[i] = "[" ->
                Opened(s, SkipWs(s, i + 1), "]", JArr(<<>>), ParseElements(s, i + 1, <<>>))
           [] s[i] = "t" -> ParseWord(s, i, <<"t","r","u","e">>, JBool(TRUE))
           [] s[i] = "f" -> ParseWord(s, i, <<"f","a","l","s","e">>, JBool(FALSE))
           [] s[i] = "n" -> ParseWord(s, i, <<"n","u","l","l">>, JNull)
           [] OTHER -> ParseNumber(s, i)

\* r is the value read at the start of text: only white space may follow
WholeText(text, r) ==
    IF r.ok /\ SkipWs(text, r.i) > Len(text) THEN [ok |-> TRUE, v |-> r.v]
    ELSE [ok |-> FALSE, v |-> JNull]

\* [ok |-> FALSE] stands for the thrown SyntaxError
JSONparse(text) == WholeText(text, ParseValue(text, SkipWs(text, 1)))

\* the text clearForm puts in the output pane
ClearedOutput ==
    <<"{","\n"," "," ","\"","V","e","r","s","i","o","n","\"",":"," ","\"","2","0","1","2","-","1","0","-","1","7","\"",",","\n"," "," ","\"","S","t","a","t","e","m","e","n","t","\"",":"," ","[","]","\n","}","\n","\n","C","l","i","c","k"," ","\"","G","e","n","e","r","a","t","e"," ","P","o","l","i","c","y","\""," ","t","o"," ","c","r","e","a","t","e"," ","y","o","u","r"," ","b","u","c","k","e","t"," ","p","o","l","i","c","y",".",".",".">>

validS3Actions == {
    <<"s","3",":","*">>,
    <<"s","3",":","G","e","t","O","b","j","e","c","t">>,
    <<"s","3",":","P","u","t","O","b","j","e","c","t">>,
    <<"s","3",":","D","e","l","e","t","e","O","b","j","e","c","t">>,
    <<"s","3",":","G","e","t","O","b","j","e","c","t","V","e","r","s","i","o","n">>,
    <<"s","3",":","D","e","l","e","t","e","O","b","j","e","c","t","V","e","r","s","i","o","n">>,
    <<"s","3",":","G","e","t","O","b","j","e","c","t","A","c","l">>,
    <<"s","3",":","P","u","t","O","b","j","e","c","t","A","c","l">>,
    <<"s","3",":","G","e","t","O","b","j","e","c","t","V","e","r","s","i","o","n","A","c","l">>,
    <<"s","3",":","P","u","t","O","b","j","e","c","t","V","e","r","s","i","o","n","A","c","l">>,
    <<"s","3",":","G","e","t","O","b","j","e","c","t","A","t","t","r","i","b","u","t","e","s">>,
    <<"s","3",":","G","e","t","O","b","j","e","c","t","V","e","r","s","i","o","n","A","t","t","r","i","b","u","t","e","s">>,
    <<"s","3",":","G","e","t","O","b","j","e","c","t","T","a","g","g","i","n","g">>,
    <<"s","3",":","P","u","t","O","b","j","e","c","t","T","a","g","g","i","n","g">>,
    <<"s","3",":","D","e","l","e","t","e","O","b","j","e","c","t","T","a","g","g","i","n","g">>,
    <<"s","3",":","G","e","t","O","b","j","e","c","t","V","e","r","s","i","o","n","T","a","g","g","i","n","g">>,
    <<"s","3",":","P","u","t","O","b","j","e","c","t","V","e","r","s","i","o","n","T","a","g","g","i","n","g">>,
    <<"s","3",":","D","e","l","e","t","e","O","b","j","e","c","t","V","e","r","s","i","o","n","T","a","g","g","i","n","g">>,
    <<"s","3",":","G","e","t","O","b","j","e","c","t","T","o","r","r","e","n","t">>,
    <<"s","3",":","G","e","t","O","b","j","e","c","t","V","e","r","s","i","o","n","T","o","r","r","e","n","t">>,
    <<"s","3",":","G","e","t","O","b","j","e","c","t","A","t","t","r","i","b","u","t","e","s">>,
    <<"s","3",":","G","e","t","O","b","j","e","c","t","V","e","r","s","i","o","n","A","t","t","r","i","b","u","t","e","s">>,
    <<"s","3",":","L","i","s","t","B","u","c","k","e","t">>,
    <<"s","3",":","L","i","s","t","B","u","c","k","e","t","V","e","r","s","i","o","n","s">>,
    <<"s","3",":","L","i","s","t","B","u","c","k","e","t","M","u","l","t","i","p","a","r","t","U","p","l","o","a","d","s">>,
    <<"s","3",":","G","e","t","B","u","c","k","e","t","L","o","c","a","t","i","o","n">>,
    <<"s","3",":","G","e","t","B","u","c","k","e","t","V","e","r","s","i","o","n","i","n","g">>,
    <<"s","3",":","P","u","t","B","u","c","k","e","t","V","e","r","s","i","o","n","i","n","g">>,
    <<"s","3",":","G","e","t","B","u","c","k","e","t","A","c","l">>,
    <<"s","3",":","P","u","t","B","u","c","k","e","t","A","c","l">>,
    <<"s","3",":","G","e","t","B","u","c","k","e","t","C","O","R","S">>,
    <<"s","3",":","P","u","t","B","u","c","k","e","t","C","O","R","S">>,
    <<"s","3",":","D","e","l","e","t","e","B","u","c","k","e","t","C","O","R","S">>,
    <<"s","3",":","G","e","t","B","u","c","k","e","t","W","e","b","s","i","t","e">>,
    <<"s","3",":","P","u","t","B","u","c","k","e","t","W","e","b","s","i","t","e">>,
    <<"s","3",":","D","e","l","e","t","e","B","u","c","k","e","t","W","e","b","s","i","t","e">>,
    <<"s","3",":","G","e","t","B","u","c","k","e","t","L","o","g","g","i","n","g">>,
    <<"s","3",":","P","u","t","B","u","c","k","e","t","L","o","g","g","i","n","g">>,
    <<"s","3",":","G","e","t","B","u","c","k","e","t","N","o","t","i","f","i","c","a","t","i","o","n">>,
    <<"s","3",":","P","u","t","B","u","c","k","e","t","N","o","t","i","f","i","c","a","t","i","o","n">>,
    <<"s","3",":","G","e","t","B","u","c","k","e","t","P","o","l","i","c","y">>,
    <<"s","3",":","P","u","t","B","u","c","k","e","t","P","o","l","i","c","y">>,
    <<"s","3",":","D","e","l","e","t","e","B","u","c","k","e","t","P","o","l","i","c","y">>,
    <<"s","3",":","G","e","t","B","u","c","k","e","t","R","e","q","u","e","s","t","P","a","y","m","e","n","t">>,
    <<"s","3",":","P","u","t","B","u","c","k","e","t","R","e","q","u","e","s","t","P","a","y","m","e","n","t">>,
    <<"s","3",":","G","e","t","B","u","c","k","e","t","T","a","g","g","i","n","g">>,
    <<"s","3",":","P","u","t","B","u","c","k","e","t","T","a","g","g","i","n","g">>,
    <<"s","3",":","D","e","l","e","t","e","B","u","c","k","e","t","T","a","g","g","i","n","g">>,
    <<"s","3",":","G","e","t","R","e","p","l","i","c","a","t","i","o","n","C","o","n","f","i","g","u","r","a","t","i","o","n">>,
    <<"s","3",":","P","u","t","R","e","p","l","i","c","a","t","i","o","n","C","o","n","f","i","g","u","r","a","t","i","o","n">>,
    <<"s","3",":","G","e","t","A","c","c","e","l","e","r","a","t","e","C","o","n","f","i","g","u","r","a","t","i","o","n">>,
    <<"s","3",":","P","u","t","A","c","c","e","l","e","r","a","t","e","C","o","n","f","i","g","u","r","a","t","i","o","n">>,
    <<"s","3",":","G","e","t","E","n","c","r","y","p","t","i","o","n","C","o","n","f","i","g","u","r","a","t","i","o","n">>,
    <<"s","3",":","P","u","t","E","n","c","r","y","p","t","i","o","n","C","o","n","f","i","g","u","r","a","t","i","o","n">>,
    <<"s","3",":","G","e","t","B","u","c","k","e","t","O","b","j","e","c","t","L","o","c","k","C","o","n","f","i","g","u","r","a","t","i","o","n">>,
    <<"s","3",":","P","u","t","B","u","c","k","e","t","O","b","j","e","c","t","L","o","c","k","C","o","n","f","i","g","u","r","a","t","i","o","n">>,
    <<"s","3",":","G","e","t","O","b","j","e","c","t","L","o","c","k","C","o","n","f","i","g","u","r","a","t","i","o","n">>,
    <<"s","3",":","P","u","t","O","b","j","e","c","t","L","o","c","k","C","o","n","f","i","g","u","r","a","t","i","o","n">>,
    <<"s","3",":","G","e","t","B","u","c","k","e","t","P","u","b","l","i","c","A","c","c","e","s","s","B","l","o","c","k">>,
    <<"s","3",":","P","u","t","B","u","c","k","e","t","P","u","b","l","i","c","A","c","c","e","s","s","B","l","o","c","k">>,
    <<"s","3",":","G","e","t","O","b","j","e","c","t","L","e","g","a","l","H","o","l","d">>,
    <<"s","3",":","P","u","t","O","b","j","e","c","t","L","e","g","a","l","H","o","l","d">>,
    <<"s","3",":","G","e","t","O","b","j","e","c","t","R","e","t","e","n","t","i","o","n">>,
    <<"s","3",":","P","u","t","O","b","j","e","c","t","R","e","t","e","n","t","i","o","n">>,
    <<"s","3",":","B","y","p","a","s","s","G","o","v","e","r","n","a","n","c","e","R","e","t","e","n","t","i","o","n">>,
    <<"s","3",":","A","b","o","r","t","M","u","l","t","i","p","a","r","t","U","p","l","o","a","d">>,
    <<"s","3",":","L","i","s","t","M","u","l","t","i","p","a","r","t","U","p","l","o","a","d","P","a","r","t","s">>,
    <<"s","3",":","R","e","s","t","o","r","e","O","b","j","e","c","t">>
    }

validConditionOperators == {
    <<"S","t","r","i","n","g","E","q","u","a","l","s">>,
    <<"S","t","r","i","n","g","N","o","t","E","q","u","a","l","s">>,
    <<"S","t","r","i","n","g","L","i","k","e">>,
    <<"S","t","r","i","n","g","N","o","t","L","i","k","e">>,
    <<"S","t","r","i","n","g","E","q","u","a","l","s","I","g","n","o","r","e","C","a","s","e">>,
    <<"S","t","r","i","n","g","N","o","t","E","q","u","a","l","s","I","g","n","o","r","e","C","a","s","e">>,
    <<"S","t","r","i","n","g","E","q","u","a","l","s","I","f","E","x","i","s","t","s">>,
    <<"S","t","r","i","n","g","N","o","t","E","q","u","a","l","s","I","f","E","x","i","s","t","s">>,
    <<"S","t","r","i","n","g","L","i","k","e","I","f","E","x","i","s","t","s">>,
    <<"S","t","r","i","n","g","N","o","t","L","i","k","e","I","f","E","x","i","s","t","s">>,
    <<"S","t","r","i","n","g","E","q","u","a","l","s","I","g","n","o","r","e","C","a","s","e","I","f","E","x","i","s","t","s">>,
    <<"S","t","r","i","n","g","N","o","t","E","q","u","a","l","s","I","g","n","o","r","e","C","a","s","e","I","f","E","x","i","s","t","s">>,
    <<"N","u","m","e","r","i","c","E","q","u","a","l","s">>,
    <<"N","u","m","e","r","i","c","N","o","t","E","q","u","a","l","s">>,
    <<"N","u","m","e","r","i","c","L","e","s","s","T","h","a","n">>,
    <<"N","u","m","e","r","i","c","L","e","s","s","T","h","a","n","E","q","u","a","l","s">>,
    <<"N","u","m","e","r","i","c","G","r","e","a","t","e","r","T","h","a","n">>,
    <<"N","u","m","e","r","i","c","G","r","e","a","t","e","r","T","h","a","n","E","q","u","a","l","s">>,
    <<"N","u","m","e","r","i","c","E","q","u","a","l","s","I","f","E","x","i","s","t","s">>,
    <<"N","u","m","e","r","i","c","N","o","t","E","q","u","a","l","s","I","f","E","x","i","s","t","s">>,
    <<"N","u","m","e","r","i","c","L","e","s","s","T","h","a","n","I","f","E","x","i","s","t","s">>,
    <<"N","u","m","e","r","i","c","L","e","s","s","T","h","a","n","E","q","u","a","l","s","I","f","E","x","i","s","t","s">>,
    <<"N","u","m","e","r","i","c","G","r","e","a","t","e","r","T","h","a","n","I","f","E","x","i","s","t","s">>,
    <<"N","u","m","e","r","i","c","G","r","e","a","t","e","r","T","h","a","n","E","q","u","a","l","s","I","f","E","x","i","s","t","s">>,
    <<"D","a","t","e","E","q","u","a","l","s">>,
    <<"D","a","t","e","N","o","t","E","q","u","a","l","s">>,
    <<"D","a","t","e","L","e","s","s","T","h","a","n">>,
    <<"D","a","t","e","L","e","s","s","T","h","a","n","E","q","u","a","l","s">>,
    <<"D","a","t","e","G","r","e","a","t","e","r","T","h","a","n">>,
    <<"D","a","t","e","G","r","e","a","t","e","r","T","h","a","n","E","q","u","a","l","s">>,
    <<"D","a","t","e","E","q","u","a","l","s","I","f","E","x","i","s","t","s">>,
    <<"D","a","t","e","N","o","t","E","q","u","a","l","s","I","f","E","x","i","s","t","s">>,
    <<"D","a","t","e","L","e","s","s","T","h","a","n","I","f","E","x","i","s","t","s">>,
    <<"D","a","t","e","L","e","s","s","T","h","a","n","E","q","u","a","l","s","I","f","E","x","i","s","t","s">>,
    <<"D","a","t","e","G","r","e","a","t","e","r","T","h","a","n","I","f","E","x","i","s","t","s">>,
    <<"D","a","t","e","G","r","e","a","t","e","r","T","h","a","n","E","q","u","a","l","s","I","f","E","x","i","s","t","s">>,
    <<"B","o","o","l">>,
    <<"B","i","n","a","r","y","E","q","u","a","l","s">>,
    <<"B","o","o","l","I","f","E","x","i","s","t","s">>,
    <<"B","i","n","a","r","y","E","q","u","a","l","s","I","f","E","x","i","s","t","s">>,
    <<"I","p","A","d","d","r","e","s","s">>,
    <<"N","o","t","I","p","A","d","d","r","e","s","s">>,
    <<"I","p","A","d","d","r","e","s","s","I","f","E","x","i","s","t","s">>,
    <<"N","o","t","I","p","A","d","d","r","e","s","s","I","f","E","x","i","s","t","s">>,
    <<"A","r","n","E","q","u","a","l","s">>,
    <<"A","r","n","L","i","k","e">>,
    <<"A","r","n","N","o","t","E","q","u","a","l","s">>,
    <<"A","r","n","N","o","t","L","i","k","e">>,
    <<"A","r","n","E","q","u","a","l","s","I","f","E","x","i","s","t","s">>,
    <<"A","r","n","L","i","k","e","I","f","E","x","i","s","t","s">>,
    <<"A","r","n","N","o","t","E","q","u","a","l","s","I","f","E","x","i","s","t","s">>,
    <<"A","r","n","N","o","t","L","i","k","e","I","f","E","x","i","s","t","s">>,
    <<"N","u","l","l">>
    }

validStmtFields == {K.Sid, K.Effect, K.Principal, K.NotPrincipal, K.Action, K.NotAction,
                    K.Resource, K.NotResource, K.Condition}
validRootFields == {K.Version, K.Id, K.Statement}

\* the action lists of the templates of loadTemplate
templates ==
  [ publicRead |-> <<
    <<"s","3",":","G","e","t","O","b","j","e","c","t">>
    >>,
    privateReadWrite |-> <<
    <<"s","3",":","G","e","t","O","b","j","e","c","t">>,
    <<"s","3",":","P","u","t","O","b","j","e","c","t">>,
    <<"s","3",":","D","e","l","e","t","e","O","b","j","e","c","t">>,
    <<"s","3",":","L","i","s","t","B","u","c","k","e","t">>
    >>,
    crossAccount |-> <<
    <<"s","3",":","G","e","t","O","b","j","e","c","t">>,
    <<"s","3",":","L","i","s","t","B","u","c","k","e","t">>
    >>,
    objectLockVersioning |-> <<
    <<"s","3",":","G","e","t","O","b","j","e","c","t">>,
    <<"s","3",":","P","u","t","O","b","j","e","c","t">>,
    <<"s","3",":","D","e","l","e","t","e","O","b","j","e","c","t">>,
    <<"s","3",":","L","i","s","t","B","u","c","k","e","t">>,
    <<"s","3",":","G","e","t","O","b","j","e","c","t","A","t","t","r","i","b","u","t","e","s">>,
    <<"s","3",":","G","e","t","O","b","j","e","c","t","L","o","c","k","C","o","n","f","i","g","u","r","a","t","i","o","n">>,
    <<"s","3",":","P","u","t","O","b","j","e","c","t","L","o","c","k","C","o","n","f","i","g","u","r","a","t","i","o","n">>,
    <<"s","3",":","B","y","p","a","s","s","G","o","v","e","r","n","a","n","c","e","R","e","t","e","n","t","i","o","n">>,
    <<"s","3",":","G","e","t","B","u","c","k","e","t","V","e","r","s","i","o","n","i","n","g">>,
    <<"s","3",":","P","u","t","B","u","c","k","e","t","V","e","r","s","i","o","n","i","n","g">>,
    <<"s","3",":","L","i","s","t","B","u","c","k","e","t","V","e","r","s","i","o","n","s">>,
    <<"s","3",":","G","e","t","O","b","j","e","c","t","V","e","r","s","i","o","n">>,
    <<"s","3",":","D","e","l","e","t","e","O","b","j","e","c","t","V","e","r","s","i","o","n">>,
    <<"s","3",":","G","e","t","O","b","j","e","c","t","V","e","r","s","i","o","n","A","t","t","r","i","b","u","t","e","s">>
    >> ]


---------------------------------------------------------------------------
(* The structural validator.  Each function of the source pushes on the    *)
(* shared errors and warnings arrays; here each returns the messages it    *)
(* pushes, and the caller appends them in call order.                      *)

Msgs(e, w) == [errors |-> e, warnings |-> w]
NoMsgs == Msgs(<<>>, <<>>)
Err(cond, msg) == IF cond THEN Msgs(<<msg>>, <<>>) ELSE NoMsgs
Warn(cond, msg) == IF cond THEN Msgs(<<>>, <<msg>>) ELSE NoMsgs
Plus(m1, m2) == Msgs(m1.errors \o m2.errors, m1.warnings \o m2.warnings)

\* the messages of list[1], list[2], ... in order
RECURSIVE Sum(_)
Sum(list) == IF list = <<>> THEN NoMsgs ELSE Plus(list[1], Sum(Tail(list)))

\* `${v}`: the string a value turns into inside a template literal
RECURSIVE ToStringJS(_)
ToStringJS(v) ==
    CASE v.t = "string" -> Text(v.s)
      [] v.t = "number" -> Text(NumberText(v.n))
      [] v.t = "boolean" -> IF v.b THEN "true" ELSE "false"
      [] v.t = "null" -> "null"
      [] v.t = "undefined" -> "undefined"
      [] v.t = "object" -> "[object Object]"
      [] v.t = "array" ->
            IF v.a = <<>> THEN ""
            ELSE LET item(x) == IF x.t \in {"null", "undefined"} THEN "" ELSE ToStringJS(x)
                 IN  IF Len(v.a) = 1 THEN item(v.a[1])
                     ELSE item(v.a[1]) \o "," \o ToStringJS(JArr(Tail(v.a)))

Idx(prefix, i) == prefix \o "[" \o ToString(i - 1) \o "]"

\* the action name alone looked up in the list of known actions
validateActionParts_ByName(text, parts, where) ==
    IF parts[1] # S.s3 /\ text # S.Star
    THEN Warn(TRUE, where \o ": \"" \o Text(text) \o "\" is not an S3 action")
    ELSE Warn(/\ parts[1] = S.s3
              /\ parts[2] # S.Star
              /\ parts[2] \notin validS3Actions
              /\ ~Includes(parts[2], S.Star),
              where \o ": \"" \o Text(text) \o "\" may not be a valid S3 action")

\* the check an entry written service:action gets; parts is its split on ":"
validateActionParts(text, parts, where) ==
    IF parts[1] # S.s3 /\ text # S.Star
    THEN Warn(TRUE, where \o ": \"" \o Text(text) \o "\" is not an S3 action")
    ELSE Warn(/\ parts[1] = S.s3
              /\ parts[2] # S.Star
              /\ text \notin validS3Actions
              /\ ~Includes(parts[2], S.Star),
              where \o ": \"" \o Text(text) \o "\" may not be a valid S3 action")

\* the check one entry of Action / NotAction gets; i is its 1-based position
validateAction(action, i, prefix) ==
    IF TypeOf(action) # "string" THEN Err(TRUE, Idx(prefix, i) \o ": Must be a string")
    ELSE IF ~Includes(action.s, <<":">>)
    THEN Err(TRUE, Idx(prefix, i) \o ": Invalid format \"" \o Text(action.s)
                   \o "\". Must be \"service:action\"")
    ELSE validateActionParts(action.s, Split(action.s, ":"), Idx(prefix, i))

\* arrays only: a value that is not an array gives no entry
AsList_ArraysOnly(v) == IF IsArray(v) THEN v.a ELSE <<>>
\* Array.isArray(v) ? v : [v]
AsList(v) == IF IsArray(v) THEN v.a ELSE <<v>>

validateActions(actions, prefix) ==
    IF Len(AsList(actions)) = 0 THEN Err(TRUE, prefix \o ": Cannot be empty")
    ELSE Sum([i \in 1..Len(AsList(actions)) |-> validateAction(AsList(actions)[i], i, prefix)])

\* the pattern with any character between the first and the last
ResourceBucketRegex_EdgesOnly(bucketPart) ==
    /\ Len(bucketPart) >= 2
    /\ bucketPart[1] \in BucketEdge
    /\ bucketPart[Len(bucketPart)] \in BucketEdge

\* /^[a-z0-9][a-z0-9.-]*[a-z0-9]$/
ResourceBucketRegex(bucketPart) ==
    /\ Len(bucketPart) >= 2
    /\ bucketPart[1] \in BucketEdge
    /\ bucketPart[Len(bucketPart)] \in BucketEdge
    /\ AllIn(bucketPart, BucketCharset)

\* the checks on what follows arn:aws:s3::: in a resource
validateBucketPart(bucketPart, hasPath, where) ==
    Sum(<<
      IF bucketPart = <<>>
      THEN Err(TRUE, where \o ": Missing bucket name in ARN")
      ELSE Err(Includes(bucketPart, <<"/", "/">>),
               where \o ": Invalid path - contains double slashes"),
      Err(~hasPath /\ Len(bucketPart) > MaxBucketLen,
          where \o ": Bucket name too long (max 63 characters)"),
      Warn(~hasPath /\ ~ResourceBucketRegex(bucketPart),
           where \o ": Bucket name may not follow S3 naming rules")
    >>)

\* the check one entry of Resource / NotResource gets
validateResource(resource, i, prefix) ==
    IF TypeOf(resource) # "string" THEN Err(TRUE, Idx(prefix, i) \o ": Must be a string")
    ELSE IF ~StartsWith(resource.s, S.ArnPrefix) /\ resource.s # S.Star
    THEN Err(TRUE, Idx(prefix, i) \o ": Must be a valid S3 ARN (arn:aws:s3:::...) or \"*\"")
    ELSE IF StartsWith(resource.s, S.ArnPrefix)
    THEN validateBucketPart(Slice(resource.s, Len(S.ArnPrefix) + 1, Len(resource.s)),
                            Includes(Slice(resource.s, Len(S.ArnPrefix) + 1, Len(resource.s)),
                                     <<"/">>),
                            Idx(prefix, i))
    ELSE NoMsgs

validateResources(resources, prefix) ==
    IF Len(AsList(resources)) = 0 THEN Err(TRUE, prefix \o ": Cannot be empty")
    ELSE Sum([i \in 1..Len(AsList(resources)) |->
                validateResource(AsList(resources)[i], i, prefix)])

IsPlainObject(v) == TypeOf(v) = "object" /\ v.t # "null" /\ ~IsArray(v)

\* the operator name looked up: a ForAllValues: / ForAnyValue: prefix is dropped
operatorToCheck(operator) ==
    IF StartsWith(operator, S.ForAllValues) \/ StartsWith(operator, S.ForAnyValue)
    THEN Split(operator, ":")[2]
    ELSE operator

\* the check one operator key of a Condition gets
validateOperator(condition_, operator, prefix) ==
    Plus(Err(operatorToCheck(operator) \notin validConditionOperators,
             prefix \o ": Unknown condition operator \"" \o Text(operator) \o "\""),
         Err(~IsPlainObject(Get(condition_, operator)),
             prefix \o "." \o Text(operator) \o ": Must be an object"))

validateCondition(condition_, prefix) ==
    IF ~IsPlainObject(condition_) THEN Err(TRUE, prefix \o ": Must be an object")
    ELSE Sum([i \in 1..Len(condition_.k) |->
                validateOperator(condition_, condition_.k[i], prefix)])

SidRegex(s) == Len(s) >= 1 /\ AllIn(s, Lower \cup Upper \cup Digit)

validateSid(Sid, prefix) ==
    IF Sid.t = "undefined" THEN NoMsgs
    ELSE IF TypeOf(Sid) # "string" THEN Err(TRUE, prefix \o ": Sid must be a string")
    ELSE Err(~SidRegex(Sid.s), prefix \o ": Sid must contain only alphanumeric characters")

validateEffect(Effect, prefix) ==
    IF ~Truthy(Effect) THEN Err(TRUE, prefix \o ": Missing required field \"Effect\"")
    ELSE Err(Effect # JStr(S.Allow) /\ Effect # JStr(S.Deny),
             prefix \o ": Effect must be \"Allow\" or \"Deny\", got \""
             \o ToStringJS(Effect) \o "\"")

validateActionFields(Action, NotAction, prefix) ==
    Sum(<<
      Err(~Truthy(Action) /\ ~Truthy(NotAction),
          prefix \o ": Missing \"Action\" or \"NotAction\""),
      Err(Truthy(Action) /\ Truthy(NotAction),
          prefix \o ": Cannot have both \"Action\" and \"NotAction\""),
      IF Truthy(Action) THEN validateActions(Action, prefix \o ".Action") ELSE NoMsgs,
      IF Truthy(NotAction) THEN validateActions(NotAction, prefix \o ".NotAction")
      ELSE NoMsgs
    >>)

validateResourceFields(Resource, NotResource, prefix) ==
    Sum(<<
      Err(~Truthy(Resource) /\ ~Truthy(NotResource),
          prefix \o ": Missing \"Resource\" or \"NotResource\""),
      Err(Truthy(Resource) /\ Truthy(NotResource),
          prefix \o ": Cannot have both \"Resource\" and \"NotResource\""),
      IF Truthy(Resource) THEN validateResources(Resource, prefix \o ".Resource")
      ELSE NoMsgs,
      IF Truthy(NotResource) THEN validateResources(NotResource, prefix \o ".NotResource")
      ELSE NoMsgs
    >>)

\* the checks on a statement that is an object, in the order of the source
validateStatementFields(stmt, prefix) ==
    Sum(<<
      validateSid(Get(stmt, K.Sid), prefix),
      validateEffect(Get(stmt, K.Effect), prefix),
      Warn(Truthy(Get(stmt, K.Principal)),
           prefix \o ": Principal field is not supported by Impossible Cloud and will be ignored"),
      Warn(Truthy(Get(stmt, K.NotPrincipal)),
           prefix \o ": NotPrincipal field is not supported by Impossible Cloud and will be ignored"),
      validateActionFields(Get(stmt, K.Action), Get(stmt, K.NotAction), prefix),
      validateResourceFields(Get(stmt, K.Resource), Get(stmt, K.NotResource), prefix),
      IF Truthy(Get(stmt, K.Condition))
      THEN validateCondition(Get(stmt, K.Condition), prefix \o ".Condition")
      ELSE NoMsgs,
      Sum([i \in 1..Len(ObjectKeys(stmt)) |->
             Warn(ObjectKeys(stmt)[i] \notin validStmtFields,
                  prefix \o ": Unknown field \"" \o Text(ObjectKeys(stmt)[i]) \o "\"")])
    >>)

validateStatement(stmt, idx) ==
    IF TypeOf(stmt) # "object" \/ stmt.t = "null"
    THEN Err(TRUE, "Statement[" \o ToString(idx) \o "]" \o ": Must be an object")
    ELSE validateStatementFields(stmt, "Statement[" \o ToString(idx) \o "]")

validateVersion(Version) ==
    IF ~Truthy(Version) THEN Err(TRUE, "Missing required field: Version")
    ELSE IF TypeOf(Version) # "string" THEN Err(TRUE, "Version must be a string")
    ELSE IF Version.s # S.Version2012 /\ Version.s # S.Version2008
    THEN Err(TRUE, "Invalid Version: \"" \o Text(Version.s)
                   \o "\". Must be \"2012-10-17\" or \"2008-10-17\"")
    ELSE Warn(Version.s = S.Version2008,
              "Version \"2008-10-17\" is deprecated. Use \"2012-10-17\"")

validateStatementArray(Statement) ==
    IF ~Truthy(Statement) THEN Err(TRUE, "Missing required field: Statement")
    ELSE IF ~IsArray(Statement) THEN Err(TRUE, "Statement must be an array")
    ELSE IF Len(Statement.a) = 0 THEN Err(TRUE, "Statement array cannot be empty")
    ELSE Sum([i \in 1..Len(Statement.a) |-> validateStatement(Statement.a[i], i - 1)])

\* the messages steps 2 to 6 of validatePolicy collect on a value other
\* than null
collectMessages(policy) ==
    Sum(<<
      Err(TypeOf(policy) # "object" \/ policy.t = "null", "Policy must be a JSON object"),
      validateVersion(Get(policy, K.Version)),
      validateStatementArray(Get(policy, K.Statement)),
      Sum([i \in 1..Len(ObjectKeys(policy)) |->
             Warn(ObjectKeys(policy)[i] \notin validRootFields,
                  "Unknown root-level field: \"" \o Text(ObjectKeys(policy)[i]) \o "\"")]),
      Err(Truthy(Get(policy, K.Id)) /\ TypeOf(Get(policy, K.Id)) # "string",
          "Id field must be a string")
    >>)

Collected(threw_, msgs) == [threw |-> threw_, errors |-> msgs.errors, warnings |-> msgs.warnings]

\* steps 2 to 6 of validatePolicy on a parsed value: the errors and
\* warnings collected, or threw = TRUE for the TypeError that reading
\* policy.Version raises on null
validatePolicyValue(policy) ==
    IF policy.t = "null"
    THEN Collected(TRUE, Err(TRUE, "Policy must be a JSON object"))
    ELSE Collected(FALSE, collectMessages(policy))

---------------------------------------------------------------------------
(* validatePrincipalARN                                                    *)

AccountIdLen == 12
CanonicalIdLen == 64

Partitions == {<<"a","w","s">>, <<"a","w","s","-","c","n">>, <<"a","w","s","-","u","s","-","g","o","v">>}
validServices == {S.iam, S.s3, S.sts}
awsOnlyServices == {<<"e","c","2">>, <<"l","a","m","b","d","a">>, <<"c","l","o","u","d","f","r","o","n","t">>, <<"e","l","a","s","t","i","c","l","o","a","d","b","a","l","a","n","c","i","n","g">>, <<"r","d","s">>, <<"d","y","n","a","m","o","d","b">>}
validResourceTypes == {<<"u","s","e","r">>, <<"r","o","l","e">>, <<"g","r","o","u","p">>, <<"i","n","s","t","a","n","c","e","-","p","r","o","f","i","l","e">>, S.root,
                       <<"f","e","d","e","r","a","t","e","d","-","u","s","e","r">>, <<"a","s","s","u","m","e","d","-","r","o","l","e">>}
ServiceChars == Lower \cup Digit \cup {"-"}

\* parts[i] of a split, 0-based as in the source; undefined is Missing
Missing == <<"(undefined)">>
Part(parts, i) == IF i + 1 <= Len(parts) THEN parts[i + 1] ELSE Missing
\* !x for a string or undefined
Absent(x) == x = Missing \/ x = <<>>
\* parts.slice(5).join(':')
ResourceOf(parts) == IF Len(parts) > 5 THEN Join(SubSeq(parts, 6, Len(parts)), ":") ELSE <<>>

\* the canonical-id test with letters only
IsCanonicalId_LettersOnly(s) == Len(s) = CanonicalIdLen /\ AllIn(s, {"a","b","c","d","e","f"})
\* /^[a-f0-9]{64}$/
IsCanonicalId(s) == Len(s) = CanonicalIdLen /\ AllIn(s, Digit \cup {"a","b","c","d","e","f"})

\* the service-principal test on the suffix alone
IsServicePrincipal_SuffixOnly(s) == EndsWith(s, S.amazonaws) \/ EndsWith(s, S.amazon)
\* /^[a-z0-9-]+\.(amazonaws\.com|amazon\.com)$/
IsServicePrincipal(s) ==
    \E suffix \in {S.amazonaws, S.amazon} :
        /\ EndsWith(s, suffix)
        /\ Len(s) > Len(suffix)
        /\ AllIn(Slice(s, 1, Len(s) - Len(suffix)), ServiceChars)

\* /^\d{12}$/
IsAccountId(s) == Len(s) = AccountIdLen /\ AllIn(s, Digit)

\* /^arn:(aws|aws-cn|aws-us-gov):([a-z0-9-]+):([a-z0-9-]*):([0-9]{12}|):(.+)$/
arnRegex(s) ==
    LET parts == Split(s, ":")
    IN  /\ Len(parts) >= 6
        /\ parts[1] = <<"a","r","n">>
        /\ parts[2] \in Partitions
        /\ parts[3] # <<>> /\ AllIn(parts[3], ServiceChars)
        /\ AllIn(parts[4], ServiceChars)
        /\ (parts[5] = <<>> \/ IsAccountId(parts[5]))
        /\ ResourceOf(parts) # <<>>
        /\ \A i \in 1..Len(ResourceOf(parts)) : ResourceOf(parts)[i] \notin {"\n", "\r"}

\* M: the messages validatePrincipalARN pushes (the warning sign that opens
\* ServiceUnsupported in the source is left out)
M ==
    [ Wildcard |-> "Using \"*\" grants public access - ensure this is intentional for security",
      Canonical |-> "Using canonical user ID - ensure this is an Impossible Cloud canonical ID",
      ServiceFormat |-> "Service principal format should be: service-name.amazonaws.com",
      ServiceUnsupported |-> "AWS service principals (*.amazonaws.com) may not be supported by Impossible Cloud. Use IAM user/role ARNs instead.",
      AccountOnly |-> "Using just an account ID. Consider using full ARN format: arn:aws:iam::123456789012:root",
      Fallback |-> "Principal must be \"*\", a valid ARN (arn:aws:... or arn:ipcld:...), canonical user ID (64-char hex), service principal (service.amazonaws.com), or 12-digit account ID",
      InvalidArn |-> "Invalid ARN format. Expected: arn:aws:service:region:account-id:resource or arn:ipcld:iam::CanonicalID:resource" ]


\* the service-principal block: what it pushes, and whether it returns
ServicePrincipalBlock(principal_) ==
    IF Includes(principal_, S.amazonaws) \/ Includes(principal_, S.amazon)
    THEN IF ~IsServicePrincipal(principal_)
         THEN [returns |-> FALSE, msgs |-> Err(TRUE, M.ServiceFormat)]
         ELSE [returns |-> TRUE, msgs |-> Warn(TRUE, M.ServiceUnsupported)]
    ELSE [returns |-> FALSE, msgs |-> NoMsgs]

\* the arn:ipcld:... block
IpcldBlock(parts) ==
    LET service == Part(parts, 2)
        canonicalId == Part(parts, 4)
        resource == ResourceOf(parts)
    IN  Sum(<<
          Err(service # S.iam,
              "Impossible Cloud ARNs currently only support IAM service (arn:ipcld:iam::...)"),
          Err(Absent(canonicalId),
              "Impossible Cloud ARN requires a canonical ID (arn:ipcld:iam::YourCanonicalID:...)"),
          IF resource = <<>>
          THEN Err(TRUE,
                   "Impossible Cloud ARN requires a resource (e.g., user/username, policy/policyname)")
          ELSE Err(~Includes(resource, <<"/">>),
                   "Impossible Cloud resource must include type/name (e.g., user/username, policy/policyname)")
        >>)

\* the sub-checks of an ARN that matches arnRegex
AwsArnChecks(parts) ==
    LET partition == Part(parts, 1)
        service == Part(parts, 2)
        region == Part(parts, 3)
        accountId == Part(parts, 4)
        resource == ResourceOf(parts)
        resourceType == Split(resource, "/")[1]
    IN  Sum(<<
          Err(partition \notin Partitions,
              "Invalid partition \"" \o Text(partition)
              \o "\". Must be: aws, aws-cn, aws-us-gov, or ipcld (Impossible Cloud)"),
          IF service \notin validServices /\ service \notin awsOnlyServices
          THEN Warn(TRUE, "Service \"" \o Text(service)
                          \o "\" is unusual for S3 bucket policies. Common services: iam, s3, sts")
          ELSE Warn(service \in awsOnlyServices,
                    "Service \"" \o Text(service)
                    \o "\" is AWS-specific and not supported by Impossible Cloud. Use iam, s3, or sts instead."),
          IF service # S.iam THEN NoMsgs
          ELSE Sum(<<
                 IF Absent(accountId) THEN Err(TRUE, "IAM ARN requires a 12-digit account ID")
                 ELSE Err(~IsAccountId(accountId),
                          "Account ID must be exactly 12 digits, got: " \o Text(accountId)),
                 IF resource = <<>>
                 THEN Err(TRUE,
                          "IAM ARN requires a resource (e.g., user/username, role/rolename, or root)")
                 ELSE IF resource # S.root /\ ~Includes(resource, <<"/">>)
                 THEN Err(TRUE,
                          "IAM resource must be \"root\" or include type/name (e.g., user/username)")
                 ELSE Warn(resource # S.root /\ resourceType \notin validResourceTypes,
                           "Resource type \"" \o Text(resourceType)
                           \o "\" may not be valid. Common types: user, role, root"),
                 Warn(~Absent(region), "IAM ARNs typically do not specify a region")
               >>),
          IF service # S.s3 THEN NoMsgs
          ELSE Plus(Warn(~Absent(accountId), "S3 ARNs typically do not include account ID"),
                    Warn(~Absent(region), "S3 ARNs typically do not specify a region"))
        >>)

\* what follows the arn: prefix test for a principal that is not arn:ipcld
AwsArnBlock(principal_) ==
    IF ~arnRegex(principal_) THEN Err(TRUE, M.InvalidArn)
    ELSE AwsArnChecks(Split(principal_, ":"))

Verdict(msgs) ==
    [isValid |-> Len(msgs.errors) = 0, errors |-> msgs.errors, warnings |-> msgs.warnings]

validatePrincipalARN(principal_) ==
    LET sp == ServicePrincipalBlock(principal_)
        parts == Split(principal_, ":")
    IN  IF principal_ = S.Star
        THEN [isValid |-> TRUE, errors |-> <<>>, warnings |-> <<M.Wildcard>>]
        ELSE IF principal_ = <<>> \/ Trim(principal_) = <<>>
        THEN [isValid |-> TRUE, errors |-> <<>>, warnings |-> <<>>]
        ELSE IF IsCanonicalId(principal_)
        THEN [isValid |-> TRUE, errors |-> <<>>, warnings |-> <<M.Canonical>>]
        ELSE IF sp.returns
        THEN [isValid |-> TRUE, errors |-> <<>>, warnings |-> sp.msgs.warnings]
        ELSE IF StartsWith(principal_, S.arnColon)
        THEN IF Part(parts, 1) = S.ipcld
             THEN Verdict(Plus(sp.msgs, IpcldBlock(parts)))
             ELSE Verdict(Plus(sp.msgs, AwsArnBlock(principal_)))
        ELSE IF ~Includes(principal_, <<".">>)
        THEN Verdict(Plus(sp.msgs, IF IsAccountId(principal_)
                                   THEN Warn(TRUE, M.AccountOnly)
                                   ELSE Err(TRUE, M.Fallback)))
        ELSE Verdict(sp.msgs)

---------------------------------------------------------------------------
(* getARNSuggestion: the guidance shown while a principal is being typed.  *)
(* The pictograph that opens each message in the source is left out, and   *)
(* the arrow in some messages is written "->".                             *)

Suggestion(type_, message_) == [type |-> type_, message |-> message_]
\* return null, or no return yet in a stage that falls through
NoSuggestion == Suggestion("null", "")
Hint(message_) == Suggestion("hint", message_)

\* p.startsWith(s) for one of the listed words p
PrefixOfAny(s, words) == \E w \in words : StartsWith(w, s)

\* Stage 3: the partition is being typed
PartitionStage(partition) ==
    IF partition = S.ipcld
    THEN Hint("Good! Impossible Cloud ARN. Now add service: <code>arn:ipcld:iam:</code>")
    ELSE IF StartsWith(S.ipcld, partition)
    THEN Hint("Continue: <code>ipcld</code> for Impossible Cloud or <code>aws</code> for AWS")
    ELSE IF partition \in Partitions
    THEN Hint("Good! Now add colon and service: <code>arn:" \o Text(partition) \o ":</code>")
    ELSE IF PrefixOfAny(partition, Partitions)
    THEN Hint("Continue: <code>aws</code>, <code>aws-cn</code>, or <code>aws-us-gov</code>")
    ELSE NoSuggestion

\* Stage 5: the service is being typed
ServiceStage(partition, service) ==
    IF partition = S.ipcld
    THEN IF service = S.iam
         THEN Hint("Good! Now add <code>:</code> then region (leave empty): <code>arn:ipcld:iam:</code>")
         ELSE IF StartsWith(S.iam, service) THEN Hint("Continue: <code>iam</code>")
         ELSE Hint("Impossible Cloud only supports <code>iam</code> service")
    ELSE IF service \in validServices
    THEN Hint("Good! Now add colon and region: <code>arn:" \o Text(partition) \o ":"
              \o Text(service) \o ":</code> (usually empty for IAM/S3)")
    ELSE IF service \in awsOnlyServices
    THEN Hint("Warning: <code>" \o Text(service)
              \o "</code> is AWS-specific and not supported by Impossible Cloud. Use <code>iam</code>, <code>s3</code>, or <code>sts</code>")
    ELSE IF PrefixOfAny(service, validServices)
    THEN Hint("Common services: <code>iam</code>, <code>s3</code>, <code>sts</code>")
    ELSE NoSuggestion

\* Stage 9: the account id or canonical id is being typed
\* Stage 9 without the test for digits
AccountStage_AnyCharacter(partition, accountId) ==
    IF partition = S.ipcld
    THEN Hint("Continue entering canonical ID, then add <code>:</code> for resource")
    ELSE IF Len(accountId) < AccountIdLen
    THEN Hint("Account ID: " \o ToString(Len(accountId)) \o "/12 digits ("
              \o ToString(AccountIdLen - Len(accountId)) \o " more needed)")
    ELSE IF Len(accountId) = AccountIdLen
    THEN Hint("Perfect! Now add <code>:</code> and resource (e.g., <code>user/username</code> or <code>root</code>)")
    ELSE Suggestion("error", "Account ID must be exactly 12 digits")

\* Stage 9: typing the account id or the canonical id
AccountStage(partition, accountId) ==
    IF partition = S.ipcld
    THEN IF Len(accountId) = 0 THEN Hint("Enter your Impossible Cloud canonical ID")
         ELSE Hint("Continue entering canonical ID, then add <code>:</code> for resource")
    ELSE IF Len(accountId) = 0 THEN Hint("Enter your 12-digit AWS account ID")
    ELSE IF ~AllIn(accountId, Digit)
    THEN Suggestion("error", "Account ID must contain only digits")
    ELSE IF Len(accountId) < AccountIdLen
    THEN Hint("Account ID: " \o ToString(Len(accountId)) \o "/12 digits ("
              \o ToString(AccountIdLen - Len(accountId)) \o " more needed)")
    ELSE IF Len(accountId) = AccountIdLen
    THEN Hint("Perfect! Now add <code>:</code> and resource (e.g., <code>user/username</code> or <code>root</code>)")
    ELSE Suggestion("error", "Account ID must be exactly 12 digits")

\* Stage 11 for arn:ipcld; resourceParts is resource.split('/')
IpcldResourceStage(resource, resourceParts) ==
    IF Includes(resource, <<"/">>)
    THEN IF resourceParts[1] \in {S.user, S.policy}
         THEN IF resourceParts[2] # <<>>
              THEN Suggestion("success",
                              "Valid Impossible Cloud " \o Text(resourceParts[1]) \o " ARN")
              ELSE Hint("Add the " \o Text(resourceParts[1]) \o " name. Examples: "
                        \o (IF resourceParts[1] = S.user
                            THEN "<code>user/alice</code> or <code>user/bob</code>"
                            ELSE "<code>policy/MyBucketPolicy</code> or <code>policy/ReadOnlyAccess</code>"))
         ELSE IF PrefixOfAny(resourceParts[1], {S.user, S.policy})
         THEN Hint("Impossible Cloud supports: <code>user/</code> or <code>policy/</code>")
         ELSE NoSuggestion
    ELSE IF PrefixOfAny(resource, {S.user, S.policy})
    THEN Hint("Continue typing: <code>user/alice</code>, <code>user/bob</code>, or <code>policy/MyBucketPolicy</code>")
    ELSE NoSuggestion

\* Stage 11 for service iam; resourceParts is resource.split('/')
IamResourceStage(resource, resourceParts) ==
    IF resource = S.root
    THEN Suggestion("success", "Complete! This grants access to the entire AWS account")
    ELSE IF Includes(resource, <<"/">>)
    THEN IF resourceParts[1] \in {S.user, S.role, S.group}
         THEN IF resourceParts[2] # <<>>
              THEN Suggestion("success", "Valid IAM " \o Text(resourceParts[1]) \o " ARN")
              ELSE Hint("Add the " \o Text(resourceParts[1]) \o " name. Examples: "
                        \o (CASE resourceParts[1] = S.user ->
                                   "<code>user/alice</code>, <code>user/developers/john</code>"
                              [] resourceParts[1] = S.role ->
                                   "<code>role/S3AccessRole</code>, <code>role/service-role/MyLambdaRole</code>"
                              [] OTHER -> "<code>group/Developers</code>, <code>group/Admins</code>"))
         ELSE IF PrefixOfAny(resourceParts[1], {S.user, S.role, S.group})
         THEN Hint("Common types: <code>user/</code>, <code>role/</code>, <code>group/</code>")
         ELSE NoSuggestion
    ELSE IF PrefixOfAny(resource, {S.user, S.role, S.group, S.root})
    THEN Hint("Continue typing: <code>user/alice</code>, <code>role/S3AccessRole</code>, <code>group/Developers</code>, or <code>root</code>")
    ELSE NoSuggestion

\* Stages 1 to 11, entered when the text starts with "a": the suggestion
\* returned, or NoSuggestion when every stage is passed without a return.
\* parts is principal.split(':'), so parts[i + 1] here is parts[i] there.
ArnStages(principal_, parts, endsColon) ==
    CASE Len(parts) = 1 ->
           IF StartsWith(S.arnColon, principal_) THEN Hint("Continue typing: <code>arn:</code>")
           ELSE NoSuggestion
      [] Len(parts) = 2 ->
           IF endsColon
           THEN Hint("Next: partition -> <code>arn:aws:</code> for AWS, <code>arn:ipcld:</code> for Impossible Cloud")
           ELSE PartitionStage(parts[2])
      [] Len(parts) = 3 ->
           IF endsColon
           THEN IF parts[2] = S.ipcld
                THEN Hint("Next: service -> <code>iam</code> (Impossible Cloud only supports IAM currently)")
                ELSE Hint("Next: service -> <code>iam</code>, <code>s3</code>, or <code>sts</code> then <code>:</code>")
           ELSE ServiceStage(parts[2], parts[3])
      [] Len(parts) = 4 ->
           IF endsColon
           THEN IF parts[2] = S.ipcld
                THEN Hint("Next: region (leave empty for Impossible Cloud) -> <code>:</code> then canonical ID")
                ELSE Hint("Next: region (usually empty for IAM/S3) -> <code>:</code> then account ID")
           ELSE IF parts[2] = S.ipcld
                THEN Hint("Impossible Cloud ARNs leave region empty. Add <code>:</code> for canonical ID")
                ELSE Hint("Most IAM/S3 ARNs leave region empty. Add <code>:</code> for account ID")
      [] Len(parts) = 5 ->
           IF endsColon
           THEN IF parts[2] = S.ipcld
                THEN Hint("Next: Your Impossible Cloud canonical ID (alphanumeric string) then <code>:</code>")
                ELSE Hint("Next: 12-digit account ID -> <code>123456789012</code> then <code>:</code>")
           ELSE AccountStage(parts[2], parts[5])
      [] Len(parts) = 6 /\ endsColon ->
           IF parts[2] = S.ipcld
           THEN Hint("Next: resource -> Examples: <code>user/alice</code>, <code>user/bob</code>, <code>policy/MyBucketPolicy</code>")
           ELSE IF parts[3] = S.iam
           THEN Hint("Next: resource -> Examples: <code>user/alice</code>, <code>role/S3AccessRole</code>, <code>group/Developers</code>, or <code>root</code>")
           ELSE Hint("Next: resource identifier")
      [] OTHER ->
           IF parts[2] = S.ipcld
           THEN IpcldResourceStage(ResourceOf(parts), Split(ResourceOf(parts), "/"))
           ELSE IF parts[3] = S.iam
           THEN IamResourceStage(ResourceOf(parts), Split(ResourceOf(parts), "/"))
           ELSE NoSuggestion

\* the check for service principals that follows the stages
ServicePrincipalStage(principal_) ==
    IF Includes(principal_, <<".">>) \/ Includes(principal_, <<"a","m","a","z","o","n","a","w","s">>)
    THEN IF EndsWith(principal_, S.amazonaws) \/ EndsWith(principal_, S.amazon)
         THEN Suggestion("success", "Valid service principal")
         ELSE IF PrefixOfAny(principal_, {<<"s","3">> \o S.amazonaws, <<"e","c","2">> \o S.amazonaws})
         THEN Hint("Common: <code>s3.amazonaws.com</code>, <code>ec2.amazonaws.com</code>")
         ELSE IF Includes(principal_, <<"a","m","a","z","o","n","a","w","s">>)
         THEN Hint("Service principal format: <code>service-name.amazonaws.com</code>")
         ELSE NoSuggestion
    ELSE NoSuggestion

\* the checks for the wildcard and for a bare account id, then return null
WildcardOrAccountStage(principal_) ==
    IF principal_ = S.Star
    THEN Suggestion("warning", "Wildcard grants public access - ensure this is intentional")
    ELSE IF Len(principal_) > 0 /\ AllIn(principal_, Digit)
    THEN IF Len(principal_) < AccountIdLen
         THEN Hint("Account ID: " \o ToString(Len(principal_)) \o "/12 digits ("
                   \o ToString(AccountIdLen - Len(principal_)) \o " more needed)")
         ELSE IF Len(principal_) = AccountIdLen
         THEN Suggestion("warning", "Valid account ID. Consider using full ARN: <code>arn:aws:iam::"
                                    \o Text(principal_) \o ":root</code>")
         ELSE Suggestion("error", "Account ID must be exactly 12 digits")
    ELSE NoSuggestion

\* the return of an earlier block when it returns, else that of the later one
OrElse(earlier, later) == IF earlier # NoSuggestion THEN earlier ELSE later

getARNSuggestion(principal_) ==
    IF principal_ = <<>>
    THEN Hint("Start typing: <code>*</code> for public, <code>arn:aws:iam::</code> for AWS IAM, <code>arn:ipcld:iam::</code> for Impossible Cloud, or 64-char hex for canonical ID")
    ELSE OrElse(IF StartsWith(principal_, <<"a">>)
                THEN ArnStages(principal_, Split(principal_, ":"), EndsWith(principal_, <<":">>))
                ELSE NoSuggestion,
                OrElse(ServicePrincipalStage(principal_), WildcardOrAccountStage(principal_)))

---------------------------------------------------------------------------
(* generatePolicy: the document assembled from the form.                   *)

\* customActions.split('\n'), each line trimmed, blank lines dropped
RECURSIVE NonBlankTrimmed(_)
NonBlankTrimmed(lines) ==
    IF lines = <<>> THEN <<>>
    ELSE (IF Trim(lines[1]) # <<>> THEN <<Trim(lines[1])>> ELSE <<>>)
         \o NonBlankTrimmed(Tail(lines))

CustomActionLines(customActions_) ==
    IF customActions_ # <<>> THEN NonBlankTrimmed(Split(customActions_, "\n")) ELSE <<>>

\* the actions array: checked boxes first, then the free-text lines
MergedActions(checked_, customActions_) ==
    checked_ \o CustomActionLines(Trim(customActions_))

\* only the exact action s3:ListBucket asks for the bucket-level ARN
needsBucketResource_ListOnly(actions) ==
    \E i \in 1..Len(actions) : actions[i] = S.ListBucket

needsBucketResource(actions) ==
    \E i \in 1..Len(actions) :
        \/ actions[i] = S.ListBucket
        \/ StartsWith(actions[i], S.GetBucket)
        \/ StartsWith(actions[i], S.PutBucket)

needsObjectResource(actions) ==
    \E i \in 1..Len(actions) : Includes(actions[i], S.Object)

BucketArn(bucketName_) == S.ArnPrefix \o bucketName_
ObjectArn(bucketName_, resourcePath_) == S.ArnPrefix \o bucketName_ \o <<"/">> \o resourcePath_

\* the resources array
PushedResources(bucketName_, resourcePath_, actions) ==
    (IF needsBucketResource(actions) THEN <<BucketArn(bucketName_)>> ELSE <<>>)
    \o (IF needsObjectResource(actions)
        THEN <<ObjectArn(bucketName_, resourcePath_)>> ELSE <<>>)

\* the fallback resource forgotten
OrAllObjects_Nothing(pushed, bucketName_) == pushed

\* if (resources.length === 0) resources.push(`arn:aws:s3:::${bucketName}/*`)
OrAllObjects(pushed, bucketName_) ==
    IF Len(pushed) = 0 THEN <<ObjectArn(bucketName_, S.Star)>> ELSE pushed

BuildResources(bucketName_, resourcePath_, actions) ==
    OrAllObjects(PushedResources(bucketName_, resourcePath_, actions), bucketName_)

\* the list kept as an array whatever its length
Collapse_KeepArray(list) == JArr([i \in 1..Len(list) |-> JStr(list[i])])

\* list.length === 1 ? list[0] : list
Collapse(list) ==
    IF Len(list) = 1 THEN JStr(list[1]) ELSE JArr([i \in 1..Len(list) |-> JStr(list[i])])

\* a separator between the prefix and the time
MakeSid_Dashed(now_) == S.GeneratedPolicy \o <<"-">> \o Decimal(now_)

\* 'GeneratedPolicy' + Date.now()
MakeSid(now_) == S.GeneratedPolicy \o Decimal(now_)

BuildStatement(sid, effect, actions, resources) ==
    JObj(<<K.Sid, K.Effect, K.Action, K.Resource>>,
         <<JStr(sid), JStr(effect), Collapse(actions), Collapse(resources)>>)

\* the parsed value stored only when it is truthy
WithCondition_IfTruthy(statement, conditionText, parsed) ==
    IF conditionText # <<>> /\ Truthy(parsed)
    THEN SetKey(statement, K.Condition, parsed) ELSE statement

\* statement.Condition = JSON.parse(conditionText) when the text is not blank
WithCondition(statement, conditionText, parsed) ==
    IF conditionText # <<>> THEN SetKey(statement, K.Condition, parsed) ELSE statement

BuildPolicy(statement) ==
    JObj(<<K.Version, K.Statement>>, <<JStr(S.Version2012), JArr(<<statement>>)>>)

\* resourcePath.trim() || '*'
PathOrStar(resourcePath_) ==
    IF Trim(resourcePath_) # <<>> THEN Trim(resourcePath_) ELSE S.Star

Failed(msg, shown) ==
    [ok |-> FALSE, policy |-> JNull, message |-> msg, showBucketErrors |-> shown]

Generated(policy_) ==
    [ok |-> TRUE, policy |-> policy_, message |-> "Policy generated successfully!",
     showBucketErrors |-> FALSE]

\* a condition that does not parse is dropped and the document stored
AssemblePolicy_DropBadCondition(name, effect, path, actions, conditionText, parsed, now_) ==
    Generated(BuildPolicy(WithCondition(
        BuildStatement(MakeSid(now_), effect, actions, BuildResources(name, path, actions)),
        IF parsed.ok THEN conditionText ELSE <<>>, parsed.v)))

\* the statement and the policy, once the bucket name and the actions have
\* passed; parsed is the result of JSON.parse on a condition text that is
\* not blank
AssemblePolicy(name, effect, path, actions, conditionText, parsed, now_) ==
    IF conditionText # <<>> /\ ~parsed.ok
    THEN Failed("Invalid JSON in Condition field", FALSE)
    ELSE Generated(BuildPolicy(WithCondition(
             BuildStatement(MakeSid(now_), effect, actions,
                            BuildResources(name, path, actions)),
             conditionText, parsed.v)))

\* generatePolicy on the trimmed fields
GenerateFrom(name, effect, path, actions, conditionText, now_) ==
    IF name = <<>> THEN Failed("Please enter a bucket name", FALSE)
    ELSE IF ~validateBucketName(name).isValid
    THEN Failed("Invalid bucket name. Please fix the errors shown below the bucket name field.",
                TRUE)
    ELSE IF Len(actions) = 0 THEN Failed("Please select at least one action", FALSE)
    ELSE AssemblePolicy(name, effect, path, actions, conditionText,
                        JSONparse(conditionText), now_)

\* What one call of generatePolicy does with the form it reads: the
\* notification it shows and, when it gets that far, the policy it stores.
generatePolicyResult(name, effect, path, custom, conditionText, boxes, now_) ==
    GenerateFrom(Trim(name), effect, PathOrStar(path), MergedActions(boxes, custom),
                 Trim(conditionText), now_)

---------------------------------------------------------------------------
(* Handlers.                                                               *)

Notice(message_, type_) == [message |-> message_, type |-> type_]
NoNotice == Notice("", "none")

Shown(className_, errors_) == [className |-> className_, errors |-> errors_]
NothingShown == Shown("validation-message", <<>>)

\* what is left under the bucket name field
updateBucketNameValidation(name, validation) ==
    IF name = <<>> THEN NothingShown
    ELSE IF validation.isValid THEN Shown("validation-message success", <<>>)
    ELSE Shown("validation-message error", validation.errors)

BucketNameShown(bucketName_) ==
    updateBucketNameValidation(Trim(bucketName_), validateBucketName(Trim(bucketName_)))

RECURSIVE JoinText(_, _)
JoinText(list, sep) ==
    IF list = <<>> THEN ""
    ELSE IF Len(list) = 1 THEN list[1]
    ELSE list[1] \o sep \o JoinText(Tail(list), sep)

NoVerdict == [outcome |-> "none", errors |-> <<>>, warnings |-> <<>>]

\* which of the notifications of validatePolicy the collected messages lead to
Classified(r) ==
    [outcome |-> IF r.threw THEN "threw"
                 ELSE IF Len(r.errors) > 0 THEN "failed"
                 ELSE IF Len(r.warnings) > 0 THEN "warnings"
                 ELSE "valid",
     errors |-> r.errors, warnings |-> r.warnings]

ParsedOutcome(parsed) ==
    IF ~parsed.ok THEN [outcome |-> "syntax", errors |-> <<>>, warnings |-> <<>>]
    ELSE Classified(validatePolicyValue(parsed.v))

\* the outcome of validatePolicy on the text of the output pane
validatePolicyResult(policyText) == ParsedOutcome(JSONparse(policyText))

\* the notification of validatePolicy (the pictographs that open the
\* messages of the source are left out, and the bullets are written "*")
VerdictNotice(v) ==
    CASE v.outcome = "syntax" -> Notice("Invalid JSON syntax", "error")
      [] v.outcome = "failed" ->
            Notice("Validation failed:\n* " \o JoinText(v.errors, "\n* "), "error")
      [] v.outcome = "warnings" ->
            Notice("Policy is valid but has warnings:\n* " \o JoinText(v.warnings, "\n* "),
                   "warning")
      [] v.outcome = "valid" ->
            Notice("Policy is valid and follows AWS best practices!", "success")

\* generatePolicy(): r is the result of its run on the form as it stands
GeneratePolicy ==
    \E r \in {generatePolicyResult(bucketName, policyEffect, resourcePath, customActions,
                                   condition, checked, now)} :
        /\ notification' = Notice(r.message, IF r.ok THEN "success" ELSE "error")
        /\ bucketNameValidation' =
              IF r.showBucketErrors THEN BucketNameShown(bucketName) ELSE bucketNameValidation
        /\ currentPolicy' = IF r.ok THEN r.policy ELSE currentPolicy
        /\ policyOutput' = IF r.ok THEN JSONstringify(r.policy) ELSE policyOutput
        /\ UNCHANGED <<debouncer, form, now, verdict, principalValidation, principalVerdict>>

\* validatePolicy(): v is the outcome of its run on the output pane
ValidatePolicy ==
    \E v \in {validatePolicyResult(policyOutput)} :
        /\ verdict' = v
        /\ notification' = IF v.outcome = "threw" THEN notification ELSE VerdictNotice(v)
        /\ UNCHANGED <<debouncer, form, currentPolicy, policyOutput, now, bucketNameValidation,
                       principalValidation, principalVerdict>>

\* clearForm when the user accepts the confirm dialog
ClearFormConfirmed ==
    /\ bucketName' = <<>>
    /\ policyEffect' = S.Allow
    /\ principal' = <<>>
    /\ resourcePath' = <<>>
    /\ customActions' = <<>>
    /\ condition' = <<>>
    /\ checked' = <<>>
    /\ policyOutput' = ClearedOutput
    /\ currentPolicy' = JNull
    /\ bucketNameValidation' = NothingShown
    /\ principalValidation' = NothingShown
    /\ notification' = Notice("Form cleared", "success")
    /\ UNCHANGED <<debouncer, now, verdict, principalVerdict>>

\* clearForm when the user dismisses the confirm dialog
ClearFormCancelled == UNCHANGED vars

\* the clock advances by a millisecond
Tick ==
    /\ now < MaxNow
    /\ now' = now + 1
    /\ UNCHANGED <<debouncer, form, currentPolicy, policyOutput, notification, verdict,
                   bucketNameValidation, principalValidation, principalVerdict>>

\* the blur handler of the bucket name field
BlurBucketName ==
    /\ Len(Trim(bucketName)) > 0
    /\ bucketNameValidation' = BucketNameShown(bucketName)
    /\ UNCHANGED <<debouncer, form, currentPolicy, policyOutput, notification, now, verdict,
                   principalValidation, principalVerdict>>

\* what updatePrincipalValidation leaves under the principal field, given
\* the trimmed text, its suggestion and its verdict: the class of the
\* message and the lines shown (without their leading marks)
updatePrincipalValidation(principal_, suggestion, validation) ==
    IF principal_ = <<>>
    THEN Shown("validation-message hint",
               <<"Optional: Use <code>*</code> for public access, or enter an ARN">>)
    ELSE CASE suggestion.type = "success" ->
                Shown("validation-message success", <<suggestion.message>>)
           [] suggestion.type = "hint" -> Shown("validation-message hint", <<suggestion.message>>)
           [] suggestion.type = "warning" -> Shown("validation-message", <<suggestion.message>>)
           [] suggestion.type = "error" ->
                Shown("validation-message error", <<suggestion.message>>)
           [] OTHER ->
                IF validation.isValid /\ Len(validation.warnings) = 0
                THEN Shown("validation-message success", <<"Valid principal format">>)
                ELSE IF validation.isValid THEN Shown("validation-message", validation.warnings)
                ELSE Shown("validation-message error", validation.errors)

PrincipalShown(principal_) ==
    updatePrincipalValidation(Trim(principal_), getARNSuggestion(Trim(principal_)),
                              validatePrincipalARN(Trim(principal_)))

\* the blur handler of the principal field
BlurPrincipal ==
    /\ Len(Trim(principal)) > 0
    /\ principalValidation' = PrincipalShown(principal)
    /\ UNCHANGED <<debouncer, form, currentPolicy, policyOutput, notification, now, verdict,
                   bucketNameValidation, principalVerdict>>

NotCalled == [called |-> FALSE, isValid |-> FALSE, errors |-> <<>>, warnings |-> <<>>]

\* a direct call validatePrincipalARN(principal), as the unit tests make it
CallValidatePrincipalARN ==
    \E r \in {validatePrincipalARN(principal)} :
        /\ principalVerdict' = [called |-> TRUE, isValid |-> r.isValid,
                                errors |-> r.errors, warnings |-> r.warnings]
        /\ UNCHANGED <<debouncer, form, currentPolicy, policyOutput, notification, now, verdict,
                       bucketNameValidation, principalValidation>>

\* Ctrl/Cmd+S without the test of currentPolicy
KeyDownloadPolicy_Unguarded ==
    /\ notification' = Notice("Policy downloaded! (Ctrl/Cmd+S)", "success")
    /\ UNCHANGED <<debouncer, form, currentPolicy, policyOutput, now, verdict, bucketNameValidation,
                   principalValidation, principalVerdict>>

\* Ctrl/Cmd+S: downloadPolicy() saves the displayed text as a file, outside
\* the page, and what stays is the second notification
KeyDownloadPolicy ==
    /\ notification' =
          IF currentPolicy # JNull
          THEN Notice("Policy downloaded! (Ctrl/Cmd+S)", "success")
          ELSE Notice("Generate a policy first before downloading (Ctrl/Cmd+S)", "warning")
    /\ UNCHANGED <<debouncer, form, currentPolicy, policyOutput, now, verdict, bucketNameValidation,
                   principalValidation, principalVerdict>>

\* Ctrl/Cmd+V
KeyValidatePolicy ==
    IF currentPolicy # JNull
    THEN ValidatePolicy
    ELSE /\ notification' =
               Notice("Generate a policy first before validating (Ctrl/Cmd+V)", "warning")
         /\ UNCHANGED <<debouncer, form, currentPolicy, policyOutput, now, verdict, bucketNameValidation,
                        principalValidation, principalVerdict>>

\* Ctrl/Cmd+C outside an input field: copyPolicy() writes the displayed
\* text to the clipboard and notifies when the write settles; copied tells
\* whether the clipboard took it
KeyCopyPolicy(copied) ==
    /\ notification' =
          IF currentPolicy = JNull THEN notification
          ELSE IF copied THEN Notice("Policy copied to clipboard!", "success")
          ELSE Notice("Failed to copy policy", "error")
    /\ UNCHANGED <<debouncer, form, currentPolicy, policyOutput, now, verdict, bucketNameValidation,
                   principalValidation, principalVerdict>>

\* the timers of the window: setTimeout(later, wait) and clearTimeout(id)
setTimeout(table, id_, args_, wait, now_) ==
    table \cup {[id |-> id_, due |-> now_ + wait, args |-> args_]}

clearTimeout_Nothing(table, id_) == table

clearTimeout(table, id_) == {t \in table : t.id # id_}

\* no input event yet: timeout is undefined and no timer is set
NeverCalled ==
    /\ timeout = 0
    /\ timers = {}
    /\ called = <<>>
    /\ invoked = <<>>

\* executedFunction(...args), the function debounce(func, wait) returns:
\* the timer in timeout is cleared and a new one set, which gets the next id
executedFunction(args_, wait) ==
    /\ timers' = setTimeout(clearTimeout(timers, timeout), Len(called) + 1, args_, wait, now)
    /\ timeout' = Len(called) + 1
    /\ called' = Append(called, [at |-> now, args |-> args_])

\* the function debounced for the bucket name field
debouncedBucketValidation ==
    bucketNameValidation' =
        IF Len(Trim(bucketName)) > 0 THEN BucketNameShown(bucketName) ELSE NothingShown

\* later(), run by the window when timer t is due, or after
Later(t) ==
    /\ now >= t.due
    /\ timers' = clearTimeout(timers \ {t}, timeout)
    /\ debouncedBucketValidation
    /\ invoked' = Append(invoked, [at |-> now, args |-> t.args, call |-> t.id,
                                   latest |-> Len(called)])
    /\ UNCHANGED <<form, timeout, called, currentPolicy, policyOutput, notification, now,
                   verdict, principalValidation, principalVerdict>>

\* the user types in the bucket name field: the input event reaches the
\* debounced validation, with the event as its argument
InputBucketName(text) ==
    /\ Len(called) < MaxCalls
    /\ now + Wait <= MaxElapsed
    /\ bucketName' = text
    /\ executedFunction(text, Wait)
    /\ UNCHANGED <<policyEffect, principal, resourcePath, customActions, condition, checked,
                   invoked, currentPolicy, policyOutput, notification, now, verdict,
                   bucketNameValidation, principalValidation, principalVerdict>>

\* the window runs a timer that is due
TimerFires == \E t \in timers : Later(t)

\* time passes
Elapse ==
    /\ now + Quantum <= MaxElapsed
    /\ now' = now + Quantum
    /\ UNCHANGED <<form, debouncer, currentPolicy, policyOutput, notification, verdict,
                   bucketNameValidation, principalValidation, principalVerdict>>

\* the user edits one field of the form
TypeBucketName(text) ==
    /\ bucketName' = text
    /\ UNCHANGED <<debouncer, policyEffect, principal, resourcePath, customActions, condition, checked,
                   currentPolicy, policyOutput, notification, now, verdict,
                   bucketNameValidation, principalValidation, principalVerdict>>

TypeCustomActions(text) ==
    /\ customActions' = text
    /\ UNCHANGED <<debouncer, bucketName, policyEffect, principal, resourcePath, condition, checked,
                   currentPolicy, policyOutput, notification, now, verdict,
                   bucketNameValidation, principalValidation, principalVerdict>>

TypeCondition(text) ==
    /\ condition' = text
    /\ UNCHANGED <<debouncer, bucketName, policyEffect, principal, resourcePath, customActions, checked,
                   currentPolicy, policyOutput, notification, now, verdict,
                   bucketNameValidation, principalValidation, principalVerdict>>

\* the user ticks or unticks boxes, leaving exactly these checked
SetChecked(list) ==
    /\ checked' = list
    /\ UNCHANGED <<debouncer, bucketName, policyEffect, principal, resourcePath, customActions, condition,
                   currentPolicy, policyOutput, notification, now, verdict,
                   bucketNameValidation, principalValidation, principalVerdict>>

---------------------------------------------------------------------------
(* Inputs.                                                                 *)

A_GetObject == <<"s","3",":","G","e","t","O","b","j","e","c","t">>
A_AbortUpload == <<"s","3",":","A","b","o","r","t","M","u","l","t","i","p","a","r","t","U","p","l","o","a","d">>
A_BucketObjectLock == <<"s","3",":","G","e","t","B","u","c","k","e","t","O","b","j","e","c","t","L","o","c","k","C","o","n","f","i","g","u","r","a","t","i","o","n">>
B_abc == <<"a","b","c">>
B_dotted == <<"m","y","-","b","u","c","k","e","t",".","1">>
B_upper == <<"A","b">>

UiBucketNames == {<<" ">>, B_upper, B_abc}
UiChecked == {<<>>, <<A_GetObject>>}
UiCustomActions == {<<>>, <<" ","s","3",":","L","i","s","t","B","u","c","k","e","t"," ","\n">>}
UiConditions == {<<>>, <<"{","b","a","d"," ","j","s","o","n">>, <<"{","}">>}

AssembleBucketNames == {<<>>, B_upper, B_abc, B_dotted, Repeat("a", MaxBucketLen)}
AssembleEffects == {S.Allow, S.Deny}
AssemblePaths == {<<>>, S.Star, <<"l","o","g","s","/","*">>, <<"/","x">>}
AssembleChecked ==
    {<<>>, templates.publicRead, templates.privateReadWrite, templates.crossAccount,
     templates.objectLockVersioning, <<S.ListBucket>>, <<A_AbortUpload>>, <<A_BucketObjectLock>>}
AssembleCustomActions ==
    {<<>>, <<"s","3",":","G","e","t","B","u","c","k","e","t","L","o","c","a","t","i","o","n","\n","s","3",":","P","u","t","O","b","j","e","c","t","A","c","l">>, <<" ","s","3",":","G","e","t","O","b","j","e","c","t"," ","\n","\n"," "," ">>, <<"G","e","t","O","b","j","e","c","t">>,
     <<"e","c","2",":","R","u","n","I","n","s","t","a","n","c","e","s","\n">>}
AssembleConditions ==
    {<<>>, <<" "," ">>, <<"{","b","a","d"," ","j","s","o","n">>, <<"{","}">>, <<"{","\"","S","t","r","i","n","g","L","i","k","e","\"",":","{","\"","s","3",":","p","r","e","f","i","x","\"",":","[","\"","a","/","*","\"","]","}","}">>,
     <<"{","\"","B","o","g","u","s","O","p","e","r","a","t","o","r","\"",":","{","}","}">>, <<"n","u","l","l">>, <<"\"","x","\"">>, <<"[","1","]">>, <<"0">>}

\* bucket names typed at the keyboard, and names of special shapes
BucketAlphabet == {"a", "z", "0", "9", "-", ".", "A", "_", " "}
TypedNames == UNION {[1..k -> BucketAlphabet] : k \in 0..MaxTypedLen}
SpecialNames ==
    {<<"x","n","-","-","a","b","c">>, <<"x","n","a","b","c">>, <<"m","y","-","s","3","a","l","i","a","s">>, <<"s","3","a","l","i","a","s">>, <<"1",".","1",".","1",".","1">>, <<"1","9","2",".","1","6","8",".","1",".","1">>, <<"9","9","9",".","9","9","9",".","9","9","9",".","9","9","9","9">>,
     <<"1","1","1","1">>, <<"a",".",".","b">>, <<"a",".","-","b">>, <<"a","-",".","b">>, <<"m","y","_","b","u","c","k","e","t">>, <<"M","y","B","u","c","k","e","t">>, <<"m","y","-","b","u","c","k","e","t","-","1","2","3">>, <<"m","y",".","b","u","c","k","e","t",".","n","a","m","e">>}
LongNames ==
    {pre \o Repeat(c, n) : pre \in {<<>>, <<"x","n">>, <<"-">>},
                            c \in {"a", "3"},
                            n \in (MaxBucketLen - 3)..(MaxBucketLen + 2)}
BucketInputs == TypedNames \cup SpecialNames \cup LongNames

\* principals: special shapes, and ARNs put together field by field
ArnPartitions == {<<"a","w","s">>, <<"a","w","s","-","c","n">>, S.ipcld, <<"i","n","v","a","l","i","d">>}
ArnServices == {S.iam, S.s3, <<"e","c","2">>, <<"s","q","s">>, <<>>}
ArnRegions == {<<>>, <<"u","s","-","e","a","s","t","-","1">>}
ArnAccounts == {<<>>, <<"1","2","3","4","5","6","7","8","9","0","1","2">>, <<"1","2","3">>, <<"M","y","C","a","n","o","n","i","c","a","l","I","D">>}
ArnResources == {<<>>, S.root, <<"u","s","e","r","/","a","l","i","c","e">>, <<"a","l","i","c","e">>, <<"b","o","g","u","s","/","x">>, <<"r","o","o","t","/","x">>, <<"u","s","e","r","/","s","3",".","a","m","a","z","o","n","a","w","s",".","c","o","m">>}
ArnInputs ==
    {Join(<<<<"a","r","n">>, p, s, r, a, res>>, ":") :
        p \in ArnPartitions, s \in ArnServices, r \in ArnRegions, a \in ArnAccounts,
        res \in ArnResources}
OtherPrincipals ==
    {<<>>, <<" "," ">>, <<"\t","\n">>, <<" ","*">>, S.Star, Repeat("0", CanonicalIdLen),
     Repeat("A", CanonicalIdLen), Repeat("a", CanonicalIdLen), Repeat("a", CanonicalIdLen - 1),
     Repeat("g", CanonicalIdLen), <<"s","3",".","a","m","a","z","o","n","a","w","s",".","c","o","m">>, <<"e","c","2",".","a","m","a","z","o","n","a","w","s",".","c","o","m">>, <<"s","3",".","a","m","a","z","o","n",".","c","o","m">>,
     <<"S","3",".","a","m","a","z","o","n","a","w","s",".","c","o","m">>, <<".","a","m","a","z","o","n","a","w","s",".","c","o","m">>, <<"s","3",".","a","m","a","z","o","n","a","w","s",".","c","o","m",".","e","v","i","l">>, <<"1","2","3","4","5","6","7","8","9","0","1","2">>,
     <<"1","2","3","4","5","6","7","8","9","0","1">>, <<"1","2","3","4","5","6","7","8","9","0","1","2","3">>, <<"n","o","t","-","a","-","v","a","l","i","d","-","p","r","i","n","c","i","p","a","l">>, <<"s","e","r","v","i","c","e",".","e","x","a","m","p","l","e",".","c","o","m">>,
     <<"a","r","n",":","i","n","v","a","l","i","d">>, <<"a","r","n",":">>, <<"a","r","n",":","i","p","c","l","d",":","i","a","m">>, <<"a","r","n",":","i","p","c","l","d",":","i","a","m",":",":","i","d",":","u","s","e","r",":","a","/","b">>, <<"a","r","n",":","a","w","s",":","i","a","m",":",":","1","2","3","4","5","6","7","8","9","0","1","2",":","u","s","e","r","/","a",":","b">>}
\* principals caught while they are typed
PartialPrincipals ==
    {<<"a">>,
     <<"a","r">>,
     <<"a","r","n">>,
     <<"a","r","n",":","a","w","s">>,
     <<"a","r","n",":","i","p","c","l","d",":">>,
     <<"a","r","n",":","a","w","s",":","e","c","2">>,
     <<"a","r","n",":","a","w","s",":","l","a","m","b","d","a">>,
     <<"a","r","n",":","a","w","s","-","c","n",":","r","d","s">>,
     <<"a","r","n",":","a","w","s",":","i","a","m">>,
     <<"a","r","n",":","a","w","s",":","s">>,
     <<"a","r","n",":","a","w","s",":","x","y","z">>,
     <<"a","r","n",":","i","p","c","l","d",":","e","c","2">>,
     <<"a","r","n",":","a","w","s",":","e","c","2",":">>,
     <<"a","r","n",":","a","w","s",":","i","a","m",":",":","1">>,
     <<"a","r","n",":","a","w","s",":","i","a","m",":",":","1","2","3","4","5">>,
     <<"a","r","n",":","a","w","s",":","i","a","m",":",":","1","2","3","4","5","6","7","8","9","0","1">>,
     <<"a","r","n",":","a","w","s",":","i","a","m",":",":","1","2","3","4","5","6","7","8","9","0","1","2">>,
     <<"a","r","n",":","a","w","s",":","i","a","m",":",":","1","2","3","4","5","6","7","8","9","0","1","2","3">>,
     <<"a","r","n",":","a","w","s",":","i","a","m",":",":","1","2","a","4","5">>,
     <<"a","r","n",":","a","w","s",":","i","a","m",":",":","a","b","c">>,
     <<"a","r","n",":","a","w","s",":","i","a","m",":",":">>,
     <<"a","r","n",":","i","p","c","l","d",":","i","a","m",":",":","1","2","3","4","5">>,
     <<"a","r","n",":","i","p","c","l","d",":","i","a","m",":",":","a","b","c">>,
     <<"1">>,
     <<"1","2","3","4","5">>,
     <<"1","2","a","4","5">>}
PrincipalInputs == ArnInputs \cup OtherPrincipals \cup PartialPrincipals

\* values given to the structural validator: every kind of JSON value, and
\* documents of one statement whose fields are present or absent, with
\* truthy and falsy values
V_GetObject == JStr(A_GetObject)
V_Arn == JStr(S.ArnPrefix \o B_abc \o <<"/","*">>)
ActionChoices == {JUndefined, V_GetObject, JStr(<<>>), JNull, JArr(<<>>)}
NotActionChoices == {JUndefined, V_GetObject, JNull}
ResourceChoices == {JUndefined, V_Arn, JStr(<<>>), JNum(0)}
NotResourceChoices == {JUndefined, V_Arn, JBool(FALSE)}
PrincipalChoices ==
    {JUndefined, JStr(S.Star), JStr(<<>>), JNull, JNum(7), JArr(<<>>),
     JObj(<<<<"A","W","S">>>>, <<JStr(<<"x">>)>>)}
NotPrincipalChoices == {JUndefined, JStr(<<"x">>), JBool(FALSE)}

\* obj with key set to val, or obj itself when val stands for an absent key
WithField(obj, key, val) == IF val = JUndefined THEN obj ELSE SetKey(obj, key, val)

StatementInputs ==
    {WithField(WithField(WithField(WithField(WithField(WithField(
        JObj(<<K.Effect>>, <<JStr(S.Allow)>>),
        K.Principal, p), K.NotPrincipal, np), K.Action, a), K.NotAction, na),
        K.Resource, r), K.NotResource, nr) :
        p \in PrincipalChoices, np \in NotPrincipalChoices, a \in ActionChoices,
        na \in NotActionChoices, r \in ResourceChoices, nr \in NotResourceChoices}
    \cup {JNull, JNum(1), JStr(<<"s">>), JArr(<<>>)}

DocumentOf(stmt) == JObj(<<K.Version, K.Statement>>, <<JStr(S.Version2012), JArr(<<stmt>>)>>)

ValueInputs ==
    {JNull, JBool(TRUE), JBool(FALSE), JNum(0), JNum(7), JStr(<<>>), JStr(<<"x">>),
     JArr(<<>>), JArr(<<JNum(1)>>), JObj(<<>>, <<>>)}
    \cup {DocumentOf(stmt) : stmt \in StatementInputs}

\* documents whose root fields are present or absent, of every type
GoodStatement == JObj(<<K.Effect, K.Action, K.Resource>>, <<JStr(S.Allow), V_GetObject, V_Arn>>)
BareStatement == JObj(<<K.Effect>>, <<JStr(S.Allow)>>)
VersionChoices ==
    {JUndefined, JStr(S.Version2012), JStr(S.Version2008), JStr(<<"2","0","2","0">>), JStr(<<>>),
     JNum(7), JNum(0), JNull}
StatementChoices ==
    {JUndefined, JStr(<<>>), JStr(<<"s">>), JNum(0), JObj(<<>>, <<>>), JArr(<<>>),
     JArr(<<GoodStatement>>), JArr(<<BareStatement, GoodStatement>>),
     JArr(<<GoodStatement, JNum(1), BareStatement>>)}
IdChoices ==
    {JUndefined, JStr(<<"x">>), JStr(<<>>), JNum(5), JNum(0), JNull, JBool(FALSE), JBool(TRUE),
     JArr(<<>>)}
ExtraChoices == {JUndefined, JStr(<<"y">>)}
RootInputs ==
    {WithField(WithField(WithField(WithField(JObj(<<>>, <<>>),
        K.Version, v), <<"E","x","t","r","a">>, x), K.Statement, s), K.Id, i) :
        v \in VersionChoices, x \in ExtraChoices, s \in StatementChoices, i \in IdChoices}

\* the Condition of a statement: objects of operators, and other values
ConditionObjects ==
    {JObj(<<<<"S","t","r","i","n","g","L","i","k","e">>>>, <<JObj(<<<<"s","3",":","p","r","e","f","i","x">>>>, <<JArr(<<JStr(<<"a","/","*">>)>>)>>)>>),
     JObj(<<<<"B","o","g","u","s","O","p","e","r","a","t","o","r">>>>, <<JObj(<<>>, <<>>)>>),
     JObj(<<<<"F","o","r","A","l","l","V","a","l","u","e","s",":","S","t","r","i","n","g","L","i","k","e">>>>, <<JObj(<<>>, <<>>)>>),
     JObj(<<<<"F","o","r","A","n","y","V","a","l","u","e",":","S","t","r","i","n","g","E","q","u","a","l","s">>>>, <<JObj(<<>>, <<>>)>>),
     JObj(<<<<"F","o","r","A","l","l","V","a","l","u","e","s",":","S","t","r","i","n","g","L","i","k","e",":","x">>>>, <<JObj(<<>>, <<>>)>>),
     JObj(<<<<"F","o","r","A","n","y","V","a","l","u","e",":","B","o","o","l",":">>>>, <<JObj(<<>>, <<>>)>>),
     JObj(<<<<"F","o","r","A","l","l","V","a","l","u","e","s",":","B","o","g","u","s">>>>, <<JObj(<<>>, <<>>)>>),
     JObj(<<<<"F","o","r","A","l","l","V","a","l","u","e","s",":">>>>, <<JObj(<<>>, <<>>)>>),
     JObj(<<<<"F","o","r","A","l","l","V","a","l","u","e","s","S","t","r","i","n","g","L","i","k","e">>>>, <<JObj(<<>>, <<>>)>>),
     JObj(<<<<"F","o","r","A","l","l","V","a","l","u","e","s",":","F","o","r","A","n","y","V","a","l","u","e",":","S","t","r","i","n","g","L","i","k","e">>>>, <<JObj(<<>>, <<>>)>>),
     JObj(<<<<"s","t","r","i","n","g","l","i","k","e">>>>, <<JObj(<<>>, <<>>)>>),
     JObj(<<<<"S","t","r","i","n","g","L","i","k","e">>>>, <<JNull>>),
     JObj(<<<<"S","t","r","i","n","g","L","i","k","e">>>>, <<JStr(<<"x">>)>>),
     JObj(<<<<"I","p","A","d","d","r","e","s","s">>>>, <<JArr(<<>>)>>),
     JObj(<<<<"B","o","g","u","s">>>>, <<JNum(3)>>),
     JObj(<<<<"S","t","r","i","n","g","L","i","k","e">>, <<"B","o","g","u","s">>, <<"N","u","m","e","r","i","c","E","q","u","a","l","s">>>>, <<JObj(<<>>, <<>>), JObj(<<>>, <<>>), JArr(<<>>)>>),
     JObj(<<>>, <<>>)}
ConditionValues ==
    {JNull, JBool(FALSE), JBool(TRUE), JNum(0), JNum(5), JStr(<<>>), JStr(<<"x">>), JArr(<<>>),
     JArr(<<JNum(1)>>)}
ConditionInputs ==
    {DocumentOf(SetKey(GoodStatement, K.Condition, c)) : c \in ConditionObjects \cup ConditionValues}

\* the Action of a statement: entries, alone or in arrays
ActionTexts ==
    {<<"s","3",":","G","e","t","O","b","j","e","c","t">>,
     <<"s","3",":","*">>,
     <<"*">>,
     <<"G","e","t","O","b","j","e","c","t">>,
     <<"e","c","2",":","R","u","n","I","n","s","t","a","n","c","e","s">>,
     <<"s","3",":","B","o","g","u","s">>,
     <<"s","3",":","G","e","t","*">>,
     <<"s","3",":","G","e","t",":","*">>,
     <<"s","3",":","*",":","x">>,
     <<":">>,
     <<"s","3",":">>,
     <<"*",":","*">>}
ActionEntries == {JStr(s) : s \in ActionTexts} \cup {JStr(<<>>), JNum(5), JNull, JArr(<<>>)}
ActionValues ==
    {JStr(s) : s \in ActionTexts}
    \cup {JNum(5), JBool(TRUE), JObj(<<>>, <<>>), JArr(<<>>)}
    \cup {JArr(<<e>>) : e \in ActionEntries}
    \cup {JArr(<<V_GetObject, e, JStr(<<"s","3",":","B","o","g","u","s">>)>>) : e \in ActionEntries}
ActionInputs == {DocumentOf(SetKey(GoodStatement, K.Action, a)) : a \in ActionValues}

\* the Resource of a statement: entries, alone or in arrays
ResourceTexts ==
    {S.ArnPrefix \o rest : rest \in
        {<<>>,
         <<"a">>,
         <<"a","b">>,
         <<"a","b","c">>,
         <<"a","B","c">>,
         <<"A","b","c">>,
         <<"-","a","b","c">>,
         <<"a","b","c","-">>,
         <<"a",".",".","b">>,
         <<"a","_","b">>,
         <<"a","b","c","/","*">>,
         <<"a","b","c","/","/","x">>,
         <<"/","/">>,
         <<"/">>,
         <<"a","b","c","/">>,
         <<"A","b","c","/","x">>}
        \cup {Repeat("a", n) : n \in (MaxBucketLen - 1)..(MaxBucketLen + 1)}
        \cup {Repeat("a", MaxBucketLen + 1) \o <<"/","x">>, Repeat("A", MaxBucketLen + 1)}
        \cup {b \in [1..MinBucketLen -> BucketAlphabet] \cup SpecialNames \cup LongNames :
                 validateBucketName(b).isValid}}
    \cup {<<"*">>, <<"a","b","c">>, <<"a","r","n",":","a","w","s",":","s","3",":",":","a","b","c">>, <<"a","r","n",":","a","w","s",":","i","a","m",":",":","1","2","3","4","5","6","7","8","9","0","1","2",":","r","o","o","t">>, <<"a","r","n",":","a","w","s",":","s","3",":",":",":","*">>}
ResourceEntries == {JStr(<<>>), JNum(5), JNull, JArr(<<>>), V_Arn, JStr(S.Star), JStr(<<"a","b","c">>)}
ResourceValues ==
    {JStr(s) : s \in ResourceTexts}
    \cup {JNum(5), JBool(TRUE), JObj(<<>>, <<>>), JArr(<<>>)}
    \cup {JArr(<<e>>) : e \in ResourceEntries}
    \cup {JArr(<<V_Arn, e, JStr(S.ArnPrefix \o <<"A">>)>>) : e \in ResourceEntries}
ResourceInputs == {DocumentOf(SetKey(GoodStatement, K.Resource, r)) : r \in ResourceValues}

ValidateInputs ==
    {JSONstringify(v) : v \in ValueInputs \cup RootInputs \cup ConditionInputs \cup ActionInputs
                         \cup ResourceInputs} \cup {<<"n","u","l","l"," ">>, <<"{">>}

---------------------------------------------------------------------------
(* Specifications.                                                         *)

\* nothing generated, validated or shown yet
Untouched ==
    /\ currentPolicy = JNull
    /\ policyOutput = ClearedOutput
    /\ notification = NoNotice
    /\ now = 0
    /\ verdict = NoVerdict
    /\ bucketNameValidation = NothingShown
    /\ principalValidation = NothingShown
    /\ principalVerdict = NotCalled
    /\ NeverCalled

\* the page as loaded
PageLoaded ==
    /\ bucketName = <<>>
    /\ policyEffect = S.Allow
    /\ principal = <<>>
    /\ resourcePath = <<>>
    /\ customActions = <<>>
    /\ condition = <<>>
    /\ checked = <<>>
    /\ Untouched

Init == PageLoaded

Next ==
    \/ \E text \in UiBucketNames : TypeBucketName(text)
    \/ \E text \in UiCustomActions : TypeCustomActions(text)
    \/ \E text \in UiConditions : TypeCondition(text)
    \/ \E list \in UiChecked : SetChecked(list)
    \/ GeneratePolicy
    \/ ValidatePolicy
    \/ ClearFormConfirmed
    \/ ClearFormCancelled
    \/ Tick

Spec == Init /\ [][Next]_vars

\* the page with its buttons and its keyboard shortcuts
NextKeys ==
    \/ \E text \in {B_upper, B_abc} : TypeBucketName(text)
    \/ \E list \in UiChecked : SetChecked(list)
    \/ GeneratePolicy
    \/ ValidatePolicy
    \/ BlurBucketName
    \/ ClearFormConfirmed
    \/ ClearFormCancelled
    \/ KeyDownloadPolicy
    \/ KeyValidatePolicy
    \/ \E copied \in BOOLEAN : KeyCopyPolicy(copied)
    \/ Tick

SpecKeys == Init /\ [][NextKeys]_vars

\* the bucket name field as the user types, its debounced validation and
\* the clock; time passes and the window runs the timers that are due
NextDebounce ==
    \/ \E text \in UiBucketNames : InputBucketName(text)
    \/ TimerFires
    \/ Elapse

SpecDebounce ==
    /\ Init
    /\ [][NextDebounce]_vars
    /\ WF_vars(Elapse)
    /\ WF_vars(TimerFires)

\* forms that differ in the bucket name, the effect, the path and the boxes
FormOfBoxes ==
    /\ bucketName \in AssembleBucketNames
    /\ policyEffect \in AssembleEffects
    /\ resourcePath \in AssemblePaths
    /\ customActions = <<>>
    /\ condition = <<>>
    /\ checked \in AssembleChecked

\* forms that differ in the free-text actions and the condition
FormOfText ==
    /\ bucketName \in {B_abc, B_dotted}
    /\ policyEffect = S.Allow
    /\ resourcePath \in {<<>>, <<"/", "x">>}
    /\ customActions \in AssembleCustomActions
    /\ condition \in AssembleConditions
    /\ checked \in {<<>>, templates.publicRead, <<S.ListBucket>>}

\* one form filled in, then Generate and Validate
InitAssemble ==
    /\ FormOfBoxes \/ FormOfText
    /\ principal = <<>>
    /\ Untouched

NextAssemble == GeneratePolicy \/ ValidatePolicy

SpecAssemble == InitAssemble /\ [][NextAssemble]_vars

\* a bucket name entered, then the field left
InitBucket ==
    /\ bucketName \in BucketInputs
    /\ policyEffect = S.Allow
    /\ principal = <<>>
    /\ resourcePath = <<>>
    /\ customActions = <<>>
    /\ condition = <<>>
    /\ checked = <<>>
    /\ Untouched

NextBucket == BlurBucketName

SpecBucket == InitBucket /\ [][NextBucket]_vars

\* a principal passed to validatePrincipalARN, or typed and the field left
InitPrincipal ==
    /\ bucketName = <<>>
    /\ policyEffect = S.Allow
    /\ principal \in PrincipalInputs
    /\ resourcePath = <<>>
    /\ customActions = <<>>
    /\ condition = <<>>
    /\ checked = <<>>
    /\ Untouched

NextPrincipal == CallValidatePrincipalARN \/ BlurPrincipal

SpecPrincipal == InitPrincipal /\ [][NextPrincipal]_vars

\* a text in the output pane, then Validate
InitValidate ==
    /\ bucketName = <<>>
    /\ policyEffect = S.Allow
    /\ principal = <<>>
    /\ resourcePath = <<>>
    /\ customActions = <<>>
    /\ condition = <<>>
    /\ checked = <<>>
    /\ currentPolicy = JNull
    /\ policyOutput \in ValidateInputs
    /\ notification = NoNotice
    /\ now = 0
    /\ verdict = NoVerdict
    /\ bucketNameValidation = NothingShown
    /\ principalValidation = NothingShown
    /\ principalVerdict = NotCalled
    /\ NeverCalled

NextValidate == ValidatePolicy

SpecValidate == InitValidate /\ [][NextValidate]_vars

---------------------------------------------------------------------------
(* Properties of generatePolicy.  Under SpecAssemble the form never        *)
(* changes, so a stored document is the one generated from the form in     *)
(* the state.                                                              *)

\* the elements of a sequence, and whether an object has an own key
Range(s) == {s[i] : i \in 1..Len(s)}
HasKey(v, key) == v.t = "object" /\ KeyIndex(v, key) # 0

\* a document has been generated from the form
Produced == currentPolicy # JNull

TheStatement == Get(currentPolicy, K.Statement).a[1]
TheActions == MergedActions(checked, customActions)
TheName == Trim(bucketName)
ThePath == PathOrStar(resourcePath)
TheConditionText == Trim(condition)

\* what the structural validator says of the text in the output pane
ZeroErrors == validatePolicyResult(policyOutput).outcome \in {"valid", "warnings"}

\* C1 as stated: whenever generatePolicy has produced a document, the
\* structural validator run on that document reports zero errors.
RoundTripZeroErrors == Produced => ZeroErrors

EveryActionHasColon ==
    \A i \in 1..Len(TheActions) : Includes(TheActions[i], <<":">>)

\* the object-level ARN, when it is listed, has no "//" in it
NoDoubleSlash ==
    needsObjectResource(TheActions) =>
        ~Includes(TheName \o <<"/">> \o ThePath, <<"/", "/">>)

\* the condition text is blank, or parses to a value that is falsy, or to
\* an object whose keys are known operators with objects as values
ConditionWellFormed ==
    \/ TheConditionText = <<>>
    \/ ~Truthy(JSONparse(TheConditionText).v)
    \/ /\ IsPlainObject(JSONparse(TheConditionText).v)
       /\ \A i \in 1..Len(JSONparse(TheConditionText).v.k) :
            /\ operatorToCheck(JSONparse(TheConditionText).v.k[i]) \in validConditionOperators
            /\ IsPlainObject(JSONparse(TheConditionText).v.a[i])

\* C1 as amended: whenever generatePolicy has produced a document from a
\* form in which every merged action contains ":", the object-level ARN
\* (when listed) has no "//", and the condition is blank, falsy or an object
\* of known operators with object values, the structural validator run on
\* that document reports zero errors.
RoundTripOfWellFormedInput ==
    Produced /\ EveryActionHasColon /\ NoDoubleSlash /\ ConditionWellFormed => ZeroErrors

\* a document with free-text actions and a condition object, validated
RoundTripWitness ==
    /\ Produced
    /\ EveryActionHasColon /\ NoDoubleSlash /\ ConditionWellFormed
    /\ Trim(customActions) # <<>>
    /\ HasKey(TheStatement, K.Condition)
    /\ Truthy(Get(TheStatement, K.Condition))
    /\ verdict.outcome = "warnings"
    /\ verdict.errors = <<>>

Templates ==
    {templates.publicRead, templates.privateReadWrite, templates.crossAccount,
     templates.objectLockVersioning}

TemplateForm ==
    /\ TheActions \in Templates
    /\ ThePath = S.Star
    /\ TheConditionText = <<>>

ResourceList ==
    IF Get(TheStatement, K.Resource).t = "array"
    THEN [i \in 1..Len(Get(TheStatement, K.Resource).a) |-> Get(TheStatement, K.Resource).a[i].s]
    ELSE <<Get(TheStatement, K.Resource).s>>

BucketLevel ==
    \E i \in 1..Len(TheActions) :
        \/ TheActions[i] = S.ListBucket
        \/ StartsWith(TheActions[i], S.GetBucket)
        \/ StartsWith(TheActions[i], S.PutBucket)

ObjectLevel == \E i \in 1..Len(TheActions) : Includes(TheActions[i], S.Object)

CollapseRule ==
    Produced =>
        /\ Get(TheStatement, K.Action).t = "string" <=> Len(TheActions) = 1
        /\ Len(TheActions) = 1 => Get(TheStatement, K.Action).s = TheActions[1]
        /\ Len(TheActions) # 1 =>
              /\ Get(TheStatement, K.Action).t = "array"
              /\ Len(Get(TheStatement, K.Action).a) = Len(TheActions)
              /\ \A i \in 1..Len(TheActions) :
                    Get(TheStatement, K.Action).a[i] = JStr(TheActions[i])
        /\ Get(TheStatement, K.Resource).t = "string"
              <=> ~(BucketLevel /\ ObjectLevel)
        /\ BucketLevel /\ ObjectLevel =>
              /\ Get(TheStatement, K.Resource).t = "array"
              /\ Len(Get(TheStatement, K.Resource).a) = 2

\* one action that needs both resources: Action bare, Resource an array
CollapseRuleWitness ==
    /\ Produced
    /\ TheActions = <<A_BucketObjectLock>>
    /\ Get(TheStatement, K.Action).t = "string"
    /\ Get(TheStatement, K.Resource).t = "array"

\* C7: the statement has a Condition key iff the trimmed condition text is
\* not blank, and then its value is the JSON value the text parses to.
ConditionRule ==
    Produced =>
        /\ HasKey(TheStatement, K.Condition) <=> TheConditionText # <<>>
        /\ TheConditionText # <<>> =>
              Get(TheStatement, K.Condition) = JSONparse(TheConditionText).v

\* the text null: the key is there, with the value null
ConditionRuleWitness ==
    /\ Produced
    /\ TheConditionText = <<"n","u","l","l">>
    /\ HasKey(TheStatement, K.Condition)
    /\ Get(TheStatement, K.Condition) = JNull

---------------------------------------------------------------------------
(* Properties of generatePolicy as a step of the page (Spec).              *)

\* the step is one call of generatePolicy
GenerateStep == form' = form /\ now' = now /\ verdict' = verdict /\ GeneratePolicy

\* the four cases in which generatePolicy is said to fail
FailureCase ==
    \/ TheName = <<>>
    \/ ~validateBucketName(TheName).isValid
    \/ Len(TheActions) = 0
    \/ TheConditionText # <<>> /\ ~JSONparse(TheConditionText).ok

\* a whole document: Version, and one statement with its four fields
Complete(doc) ==
    /\ doc.t = "object"
    /\ doc.k = <<K.Version, K.Statement>>
    /\ Get(doc, K.Statement).t = "array"
    /\ Len(Get(doc, K.Statement).a) = 1
    /\ {K.Sid, K.Effect, K.Action, K.Resource} \subseteq Range(Get(doc, K.Statement).a[1].k)

\* C5: a call of generatePolicy fails exactly when the trimmed bucket name
\* is empty or rejected, the merged action list is empty, or the condition
\* text is not blank and does not parse; a failing call leaves currentPolicy
\* and the displayed text as they were, and every other call stores a new
\* complete document and displays it.
FailureCases ==
    [][GenerateStep =>
          IF FailureCase
          THEN /\ currentPolicy' = currentPolicy
               /\ policyOutput' = policyOutput
               /\ notification'.type = "error"
          ELSE /\ Complete(currentPolicy')
               /\ Get(Get(currentPolicy', K.Statement).a[1], K.Effect) = JStr(policyEffect)
               /\ JSONparse(policyOutput').ok
               /\ JSONparse(policyOutput').v = currentPolicy'
               /\ notification'.type = "success"]_vars

\* a call has failed on the condition text while a document was stored
FailureCasesWitness ==
    /\ Produced
    /\ notification = Notice("Invalid JSON in Condition field", "error")
    /\ JSONparse(policyOutput).ok
    /\ JSONparse(policyOutput).v = currentPolicy

SidOf(doc) == Get(Get(doc, K.Statement).a[1], K.Sid)

\* C6: the Sid of a document produced by a successful call of
\* generatePolicy differs from the Sid of the document produced by the
\* successful call before it.
SidsAreDistinct ==
    [][GenerateStep /\ Produced /\ notification'.type = "success"
          => SidOf(currentPolicy') # SidOf(currentPolicy)]_vars

---------------------------------------------------------------------------
(* Properties of validateBucketName (SpecBucket) and of                    *)
(* validatePrincipalARN (SpecPrincipal).                                   *)

\* 3 to 63 characters, all of them in [a-z0-9]
PlainName ==
    /\ Len(bucketName) >= 3
    /\ Len(bucketName) <= 63
    /\ \A i \in 1..Len(bucketName) : bucketName[i] \in Lower \cup Digit

\* C9: for a string of 3 to 63 characters of [a-z0-9], validateBucketName
\* returns isValid = true and no errors, which is what the field then shows.
PlainNamesAreValid ==
    PlainName =>
        /\ validateBucketName(bucketName).isValid
        /\ validateBucketName(bucketName).errors = <<>>
        /\ bucketNameValidation # NothingShown =>
              bucketNameValidation = Shown("validation-message success", <<>>)

\* the longest plain name, shown valid
PlainNamesAreValidWitness ==
    /\ PlainName
    /\ Len(bucketName) = 63
    /\ bucketNameValidation = Shown("validation-message success", <<>>)

\* the branch of validatePrincipalARN that pushes the message
BranchOf(msg) ==
    CASE msg = M.Wildcard -> "wildcard"
      [] msg = M.Canonical -> "canonical-id"
      [] msg \in {M.ServiceFormat, M.ServiceUnsupported} -> "service-principal"
      [] msg = M.AccountOnly -> "bare-digits"
      [] msg = M.Fallback -> "fallback-error"
      [] OTHER -> "arn:"

VerdictMessages == Range(principalVerdict.errors) \cup Range(principalVerdict.warnings)

\* C10: the errors and warnings of a verdict of validatePrincipalARN all
\* come from one branch.
OneBranchPerVerdict ==
    principalVerdict.called =>
        \A m1 \in VerdictMessages : \A m2 \in VerdictMessages : BranchOf(m1) = BranchOf(m2)

---------------------------------------------------------------------------
(* More of validatePrincipalARN (SpecPrincipal).                           *)

\* the verdict in the state is the one of a call on the principal of the state
Called == principalVerdict.called

\* the principal takes none of the earlier exits: it is not "*", not blank,
\* not 64 characters of [a-f0-9], has no ".amazonaws.com" or ".amazon.com"
\* in it, and does not start with "arn:"
NoEarlierBranch ==
    /\ principal # <<"*">>
    /\ \E i \in 1..Len(principal) : principal[i] \notin WhiteSpace
    /\ ~(Len(principal) = 64 /\ AllIn(principal, Digit \cup {"a","b","c","d","e","f"}))
    /\ ~Includes(principal, S.amazonaws)
    /\ ~Includes(principal, S.amazon)
    /\ ~StartsWith(principal, <<"a","r","n",":">>)

TwelveDigits == Len(principal) = 12 /\ AllIn(principal, Digit)

\* C11: a principal that takes none of the earlier exits is accepted, with
\* one warning, when it is exactly 12 digits, and otherwise is rejected with
\* exactly one error, the generic one that lists the accepted forms.
BareOrGenericError ==
    Called /\ NoEarlierBranch =>
        IF TwelveDigits
        THEN /\ principalVerdict.isValid
             /\ principalVerdict.errors = <<>>
             /\ Len(principalVerdict.warnings) = 1
        ELSE /\ ~principalVerdict.isValid
             /\ principalVerdict.errors = <<M.Fallback>>

\* the special-cased inputs
IsWildcard == principal = <<"*">>
IsBlank == \A i \in 1..Len(principal) : principal[i] \in WhiteSpace
IsHex64 == Len(principal) = 64 /\ AllIn(principal, Digit \cup {"a","b","c","d","e","f"})

\* C12: "*" is valid with exactly one warning, the one about public access;
\* the empty or white-space-only string is valid with no warning; 64
\* characters of [a-f0-9] are valid with exactly one warning, the one about
\* the canonical user id; none of the three has an error.
SpecialCasesAreValid ==
    Called /\ (IsWildcard \/ IsBlank \/ IsHex64) =>
        /\ principalVerdict.isValid
        /\ principalVerdict.errors = <<>>
        /\ IsWildcard => principalVerdict.warnings = <<M.Wildcard>>
        /\ IsBlank => principalVerdict.warnings = <<>>
        /\ IsHex64 => principalVerdict.warnings = <<M.Canonical>>

\* a canonical id made of digits only, validated
SpecialCasesAreValidWitness ==
    /\ Called
    /\ IsHex64
    /\ AllIn(principal, Digit)
    /\ principalVerdict.warnings = <<M.Canonical>>

\* C13: whenever getARNSuggestion returns a suggestion of type success for a
\* string, validatePrincipalARN on the same string returns isValid = true
\* with no errors.
SuccessIsValid ==
    Called /\ getARNSuggestion(principal).type = "success" =>
        principalVerdict.isValid /\ principalVerdict.errors = <<>>

---------------------------------------------------------------------------
(* The structural validator on arbitrary values (SpecValidate).            *)

\* validatePolicy has run on the text of the output pane
Validated == verdict.outcome # "none"

\* the value the text of the output pane parses to
TheValue == JSONparse(policyOutput).v
Parses == JSONparse(policyOutput).ok

\* C14: the structural validator returns a verdict for every parsed JSON
\* value and never fails abnormally, and every value that is not a non-null
\* object has "Policy must be a JSON object" among its errors.
VerdictForEveryValue ==
    Validated /\ Parses =>
        /\ verdict.outcome \in {"failed", "warnings", "valid"}
        /\ TheValue.t \notin {"object", "array"} =>
              "Policy must be a JSON object" \in Range(verdict.errors)

\* the text is a document of one statement that is an object with keys
OneStatement ==
    /\ Parses
    /\ TheValue.t = "object"
    /\ IsArray(Get(TheValue, K.Statement))
    /\ Len(Get(TheValue, K.Statement).a) = 1
    /\ Get(TheValue, K.Statement).a[1].t = "object"

TheOnlyStatement == Get(TheValue, K.Statement).a[1]

\* the errors about the pair of keys yes / no of the only statement
PairErrors(yes, no) ==
    /\ HasKey(TheOnlyStatement, yes) /\ HasKey(TheOnlyStatement, no) =>
          ("Statement[0]: Cannot have both \"" \o Text(yes) \o "\" and \"" \o Text(no) \o "\"")
              \in Range(verdict.errors)
    /\ ~HasKey(TheOnlyStatement, yes) /\ ~HasKey(TheOnlyStatement, no) =>
          ("Statement[0]: Missing \"" \o Text(yes) \o "\" or \"" \o Text(no) \o "\"")
              \in Range(verdict.errors)
    /\ HasKey(TheOnlyStatement, yes) /\ HasKey(TheOnlyStatement, no) => verdict.errors # <<>>

\* C15: a statement in which Action and NotAction are both present,
\* whatever their values, gets the mutual-exclusivity error, and likewise
\* for Resource and NotResource; a statement with neither key of a pair
\* gets the missing-field error; no statement with both keys of a pair
\* passes with zero errors.
PairsAreExclusive ==
    Validated /\ OneStatement =>
        PairErrors(K.Action, K.NotAction) /\ PairErrors(K.Resource, K.NotResource)

\* obj without key
Without(obj, key) ==
    IF ~HasKey(obj, key) THEN obj
    ELSE JObj(SelectSeq(obj.k, LAMBDA x : x # key),
              [i \in 1..(Len(obj.k) - 1) |->
                  IF i < KeyIndex(obj, key) THEN obj.a[i] ELSE obj.a[i + 1]])

NotSupported(key) ==
    "Statement[0]: " \o Text(key) \o " field is not supported by Impossible Cloud and will be ignored"

Count(list, x) == Cardinality({i \in 1..Len(list) : list[i] = x})

\* C16: a Principal or NotPrincipal field present in a statement never
\* produces an error, whatever its value, and always produces exactly one
\* "not supported / will be ignored" warning per present field: the errors
\* are those of the same statement without the two fields, and the warnings
\* hold the field's message once when the field is present.
PrincipalOnlyWarns ==
    Validated /\ OneStatement =>
        /\ verdict.errors =
              validatePolicyValue(DocumentOf(Without(Without(TheOnlyStatement, K.Principal),
                                                     K.NotPrincipal))).errors
        /\ \A key \in {K.Principal, K.NotPrincipal} :
              Count(verdict.warnings, NotSupported(key)) =
                  IF HasKey(TheOnlyStatement, key) THEN 1 ELSE 0

---------------------------------------------------------------------------
(* All the rules of validateBucketName (SpecBucket).                       *)

\* the twelve messages, in the order of the checks
BucketMessages ==
    << "Bucket name must be at least 3 characters long",
       "Bucket name cannot exceed 63 characters",
       "Bucket name can only contain lowercase letters, numbers, dots (.), and hyphens (-)",
       "Bucket name must begin with a lowercase letter or number",
       "Bucket name must end with a lowercase letter or number",
       "Bucket name cannot be formatted as an IP address (e.g., 192.168.1.1)",
       "Bucket name cannot start with \"xn--\"",
       "Bucket name cannot end with \"-s3alias\"",
       "Bucket name cannot contain two adjacent periods (..)",
       "Bucket name cannot have a period adjacent to a hyphen",
       "Bucket name cannot contain uppercase letters",
       "Bucket name cannot contain underscores (_)" >>

\* s holds the characters of t at positions i .. i + Len(t) - 1
At(s, i, t) == i >= 1 /\ i + Len(t) - 1 <= Len(s) /\ \A j \in 1..Len(t) : s[i + j - 1] = t[j]
Somewhere(s, t) == \E i \in 1..Len(s) : At(s, i, t)

\* s is a.b.c.d with a, b, c, d of one to three digits each
DottedQuad(s) ==
    \E a, b, c, d \in 1..3 :
        /\ Len(s) = a + b + c + d + 3
        /\ \A i \in 1..Len(s) :
              IF i \in {a + 1, a + b + 2, a + b + c + 3} THEN s[i] = "." ELSE s[i] \in Digit

\* the check of the i-th message fails on s
Fails(i, s) ==
    CASE i = 1 -> Len(s) < 3
      [] i = 2 -> Len(s) > 63
      [] i = 3 -> s = <<>> \/ \E j \in 1..Len(s) : s[j] \notin Lower \cup Digit \cup {".", "-"}
      [] i = 4 -> s = <<>> \/ s[1] \notin Lower \cup Digit
      [] i = 5 -> s = <<>> \/ s[Len(s)] \notin Lower \cup Digit
      [] i = 6 -> DottedQuad(s)
      [] i = 7 -> At(s, 1, <<"x","n","-","-">>)
      [] i = 8 -> At(s, Len(s) - 7, <<"-","s","3","a","l","i","a","s">>)
      [] i = 9 -> Somewhere(s, <<".",".">>)
      [] i = 10 -> Somewhere(s, <<".","-">>) \/ Somewhere(s, <<"-",".">>)
      [] i = 11 -> \E j \in 1..Len(s) : s[j] \in Upper
      [] i = 12 -> Somewhere(s, <<"_">>)

\* the elements of list, from the i-th on, whose check fails on s
RECURSIVE Kept(_, _, _)
Kept(list, i, s) ==
    IF i > Len(list) THEN <<>>
    ELSE (IF Fails(i, s) THEN <<list[i]>> ELSE <<>>) \o Kept(list, i + 1, s)

\* C17: validateBucketName evaluates all its checks without short-circuit:
\* the errors are the messages of exactly the failing checks, in the fixed
\* order of the checks; isValid holds iff the list is empty; validating the
\* same name again gives the same verdict, which is what the field shows.
AllRulesInOrder ==
    /\ validateBucketName(bucketName).errors = Kept(BucketMessages, 1, bucketName)
    /\ validateBucketName(bucketName).isValid <=> validateBucketName(bucketName).errors = <<>>
    /\ bucketNameValidation # NothingShown /\ Trim(bucketName) = bucketName =>
          /\ bucketNameValidation = updateBucketNameValidation(bucketName, validateBucketName(bucketName))
          /\ bucketNameValidation.errors = Kept(BucketMessages, 1, bucketName)
    \* a second validation would leave what the first one has shown
    /\ bucketNameValidation # NothingShown => BucketNameShown(bucketName) = bucketNameValidation

\* a name failing several checks at once is shown with all of their messages
AllRulesInOrderWitness ==
    /\ bucketName = <<"A", "_">>
    /\ bucketNameValidation.errors =
          << BucketMessages[1], BucketMessages[3], BucketMessages[4], BucketMessages[5],
             BucketMessages[11], BucketMessages[12] >>

---------------------------------------------------------------------------
(* The arn: branch of validatePrincipalARN (SpecPrincipal).                *)

\* the fields of the principal between colons: 1 is "arn", 2 the partition,
\* 3 the service, 4 the region, 5 the account or canonical id; the resource
\* is what follows the fifth colon
Field(i) == IF i <= Len(Split(principal, ":")) THEN Split(principal, ":")[i] ELSE <<>>
TheResource == ResourceOf(Split(principal, ":"))
HasArnPrefix == Len(principal) >= 4 /\ SubSeq(principal, 1, 4) = <<"a","r","n",":">>
NameChars == Lower \cup Digit \cup {"-"}

\* ^arn:(aws|aws-cn|aws-us-gov):[a-z0-9-]+:[a-z0-9-]*:([0-9]{12}|):.+$
StandardPattern ==
    /\ HasArnPrefix
    /\ Field(2) \in {<<"a","w","s">>, <<"a","w","s","-","c","n">>, <<"a","w","s","-","u","s","-","g","o","v">>}
    /\ Field(3) # <<>> /\ \A i \in 1..Len(Field(3)) : Field(3)[i] \in NameChars
    /\ \A i \in 1..Len(Field(4)) : Field(4)[i] \in NameChars
    /\ Field(5) = <<>> \/ (Len(Field(5)) = 12 /\ \A i \in 1..12 : Field(5)[i] \in Digit)
    /\ TheResource # <<>>

\* C18: for an input with the arn: prefix whose partition is not ipcld and
\* that fails the standard ARN pattern, validatePrincipalARN returns
\* isValid = false with the generic "Invalid ARN format" error as errors[0],
\* and no sub-check of the arn: branch adds an error or a warning.
GenericArnError ==
    Called /\ HasArnPrefix /\ Field(2) # S.ipcld /\ ~StandardPattern =>
        /\ ~principalVerdict.isValid
        /\ principalVerdict.errors # <<>>
        /\ principalVerdict.errors[1] = M.InvalidArn
        /\ \A m \in VerdictMessages : BranchOf(m) = "arn:" => m = M.InvalidArn

\* the rules of an arn:ipcld:... principal
IpcldRules ==
    /\ Field(3) = S.iam
    /\ Field(5) # <<>>
    /\ TheResource # <<>>
    /\ \E i \in 1..Len(TheResource) : TheResource[i] = "/"

\* C19: an input of the form arn:ipcld:... is valid iff its service is iam,
\* its canonical id is not empty and its resource is not empty and contains
\* "/"; each violated rule adds its own error; the region and the digits of
\* the canonical id are not checked; no warning is produced.
IpcldRule ==
    Called /\ HasArnPrefix /\ Field(2) = S.ipcld =>
        /\ principalVerdict.isValid <=> IpcldRules
        /\ principalVerdict.warnings = <<>>
        /\ Field(3) # S.iam <=>
              "Impossible Cloud ARNs currently only support IAM service (arn:ipcld:iam::...)"
                  \in Range(principalVerdict.errors)
        /\ Field(5) = <<>> <=>
              "Impossible Cloud ARN requires a canonical ID (arn:ipcld:iam::YourCanonicalID:...)"
                  \in Range(principalVerdict.errors)
        /\ TheResource = <<>> <=>
              "Impossible Cloud ARN requires a resource (e.g., user/username, policy/policyname)"
                  \in Range(principalVerdict.errors)
        /\ (TheResource # <<>> /\ \A i \in 1..Len(TheResource) : TheResource[i] # "/") <=>
              "Impossible Cloud resource must include type/name (e.g., user/username, policy/policyname)"
                  \in Range(principalVerdict.errors)

\* the rules of an iam ARN: an account id, and a resource that is root or
\* has a type and a name
IamRules ==
    /\ Field(5) # <<>>
    /\ TheResource = <<"r","o","o","t">> \/ \E i \in 1..Len(TheResource) : TheResource[i] = "/"

KnownResourceTypes ==
    {<<"u","s","e","r">>, <<"r","o","l","e">>, <<"g","r","o","u","p">>, <<"i","n","s","t","a","n","c","e","-","p","r","o","f","i","l","e">>,
     <<"f","e","d","e","r","a","t","e","d","-","u","s","e","r">>, <<"a","s","s","u","m","e","d","-","r","o","l","e">>}

\* the resource has a type before "/" and the type is not a known one
UnknownResourceType ==
    /\ \E i \in 1..Len(TheResource) : TheResource[i] = "/"
    /\ Split(TheResource, "/")[1] \notin KnownResourceTypes

\* C20: an input that matches the standard ARN pattern with service iam is
\* valid iff it has an account id and its resource is root or contains "/";
\* a resource type outside user, role, group, instance-profile,
\* federated-user, assumed-role adds a warning, a region adds a warning,
\* and neither adds an error.
IamRule ==
    Called /\ StandardPattern /\ Field(3) = S.iam =>
        /\ principalVerdict.isValid <=> IamRules
        /\ UnknownResourceType =>
              ("Resource type \"" \o Text(Split(TheResource, "/")[1])
                  \o "\" may not be valid. Common types: user, role, root")
                  \in Range(principalVerdict.warnings)
        /\ Field(4) # <<>> =>
              "IAM ARNs typically do not specify a region" \in Range(principalVerdict.warnings)

---------------------------------------------------------------------------
(* Service principals (SpecPrincipal).                                     *)

\* the principal is name.amazonaws.com or name.amazon.com, the name being
\* one or more characters of [a-z0-9-]
WellFormedServicePrincipal ==
    \E n \in 1..Len(principal) :
        /\ \A i \in 1..n : principal[i] \in NameChars
        /\ SubSeq(principal, n + 1, Len(principal)) \in
              {<<".","a","m","a","z","o","n","a","w","s",".","c","o","m">>, <<".","a","m","a","z","o","n",".","c","o","m">>}

MentionsAmazon ==
    \/ Somewhere(principal, <<".","a","m","a","z","o","n","a","w","s",".","c","o","m">>)
    \/ Somewhere(principal, <<".","a","m","a","z","o","n",".","c","o","m">>)

\* C21: for an input containing .amazonaws.com or .amazon.com,
\* validatePrincipalARN returns isValid = true, no error and exactly the
\* compatibility warning when the whole input is a well-formed service
\* principal, and otherwise isValid = false with the service-principal
\* format error among the errors.
ServicePrincipalRule ==
    Called /\ MentionsAmazon =>
        IF WellFormedServicePrincipal
        THEN /\ principalVerdict.isValid
             /\ principalVerdict.errors = <<>>
             /\ principalVerdict.warnings = <<M.ServiceUnsupported>>
        ELSE /\ ~principalVerdict.isValid
             /\ M.ServiceFormat \in Range(principalVerdict.errors)

\* s3.amazonaws.com has been validated and accepted with its warning
ServicePrincipalRuleWitness ==
    /\ Called
    /\ principal = <<"s","3",".","a","m","a","z","o","n","a","w","s",".","c","o","m">>
    /\ principalVerdict.isValid
    /\ principalVerdict.warnings = <<M.ServiceUnsupported>>

---------------------------------------------------------------------------
(* The suggestions of getARNSuggestion (SpecPrincipal).                    *)

\* the principal is arn:<partition>:<service> and nothing more
TypingService == HasArnPrefix /\ Len(Split(principal, ":")) = 3 /\ principal[Len(principal)] # ":"

AwsOnly ==
    {<<"e","c","2">>, <<"l","a","m","b","d","a">>, <<"c","l","o","u","d","f","r","o","n","t">>, <<"r","d","s">>,
     <<"e","l","a","s","t","i","c","l","o","a","d","b","a","l","a","n","c","i","n","g">>, <<"d","y","n","a","m","o","d","b">>}

\* C22: for arn:<partition>:<service> with a partition other than ipcld and
\* an AWS-only service, getARNSuggestion returns a suggestion of kind
\* "warning", and so it does for "*".
RiskyIsWarning ==
    (TypingService /\ Field(2) # S.ipcld /\ Field(3) \in AwsOnly) \/ principal = <<"*">> =>
        getARNSuggestion(principal).type = "warning"

\* the principal is arn:<partition>:<service>:<region>:<account> with a
\* partition other than ipcld, and does not end with a colon
TypingAccount ==
    /\ HasArnPrefix
    /\ Len(Split(principal, ":")) = 5
    /\ principal[Len(principal)] # ":"
    /\ Field(2) # S.ipcld

Digits(s) == s # <<>> /\ \A i \in 1..Len(s) : s[i] \in Digit

\* the hint that counts the digits typed and those missing
Progress(n) ==
    [type |-> "hint",
     message |-> "Account ID: " \o ToString(n) \o "/12 digits (" \o ToString(12 - n) \o " more needed)"]

\* the suggestion for an account field or a bare number s; whole is the
\* kind of suggestion for 12 digits
AccountSuggestionOk(s, sugg, whole) ==
    IF ~Digits(s) THEN sugg.type = "error"
    ELSE IF Len(s) < 12 THEN sugg = Progress(Len(s)) /\ Len(s) \in 1..11 /\ 12 - Len(s) \in 1..11
    ELSE IF Len(s) = 12 THEN sugg.type = whole
    ELSE sugg.type = "error"

\* C23: in getARNSuggestion, the account field a of a partial ARN of five
\* parts gives "error" when it holds a non-digit, a "hint" reporting n/12
\* and 12-n remaining for n digits with 0 < n < 12, a "hint" to add ":" and
\* the resource for 12 digits, and "error" for more; a bare all-digit input
\* gives "hint" under 12 digits, "warning" for 12 and "error" for more.
AccountProgress ==
    /\ TypingAccount =>
          /\ AccountSuggestionOk(Field(5), getARNSuggestion(principal), "hint")
          /\ Digits(Field(5)) /\ Len(Field(5)) = 12 =>
                getARNSuggestion(principal).message =
                    "Perfect! Now add <code>:</code> and resource (e.g., <code>user/username</code> or <code>root</code>)"
    /\ Digits(principal) => AccountSuggestionOk(principal, getARNSuggestion(principal), "warning")
    /\ TypingAccount /\ principalValidation # NothingShown =>
          principalValidation.errors = <<getARNSuggestion(principal).message>>

\* five digits of an account id have been typed and the field shows 5/12
AccountProgressWitness ==
    /\ principal = <<"a","r","n",":","a","w","s",":","i","a","m",":",":","1","2","3","4","5">>
    /\ principalValidation =
          Shown("validation-message hint", <<"Account ID: 5/12 digits (7 more needed)">>)

---------------------------------------------------------------------------
(* The root of a policy document (SpecValidate).                           *)

IsDocument == Parses /\ TheValue.t = "object"

Root(key) == Get(TheValue, key)
RootString(key) == HasKey(TheValue, key) /\ Root(key).t = "string"

VersionErrors ==
    {"Missing required field: Version", "Version must be a string"}
    \cup (IF RootString(K.Version)
          THEN {"Invalid Version: \"" \o Text(Root(K.Version).s) \o "\". Must be \"2012-10-17\" or \"2008-10-17\""}
          ELSE {})
Deprecated == "Version \"2008-10-17\" is deprecated. Use \"2012-10-17\""
StatementErrors ==
    {"Missing required field: Statement", "Statement must be an array", "Statement array cannot be empty"}
IdError == "Id field must be a string"
UnknownRoot(key) == "Unknown root-level field: \"" \o Text(key) \o "\""

\* Statement is a non-empty array
HasStatements ==
    HasKey(TheValue, K.Statement) /\ Root(K.Statement).t = "array" /\ Root(K.Statement).a # <<>>

\* the rule for Version
VersionRule ==
    IF RootString(K.Version) /\ Root(K.Version).s \in {S.Version2012, S.Version2008}
    THEN /\ Range(verdict.errors) \cap VersionErrors = {}
         /\ Deprecated \in Range(verdict.warnings) <=> Root(K.Version).s = S.Version2008
    ELSE Cardinality(Range(verdict.errors) \cap VersionErrors) = 1

\* the rule for Statement: one error and no message of a statement when it
\* is missing, not an array or empty; else the messages of its statements,
\* in the order of the statements, each under its index
StatementRule ==
    IF ~HasStatements
    THEN /\ Cardinality(Range(verdict.errors) \cap StatementErrors) = 1
         /\ Range(verdict.errors) \subseteq VersionErrors \cup StatementErrors \cup {IdError}
         /\ Range(verdict.warnings) \subseteq
               {Deprecated} \cup {UnknownRoot(key) : key \in Range(TheValue.k)}
    ELSE /\ Range(verdict.errors) \cap StatementErrors = {}
         /\ \A i \in 1..Len(Root(K.Statement).a) :
               /\ Root(K.Statement).a[i].t \notin {"object", "array"} =>
                     ("Statement[" \o ToString(i - 1) \o "]: Must be an object")
                         \in Range(verdict.errors)
               /\ Root(K.Statement).a[i] = BareStatement =>
                     ("Statement[" \o ToString(i - 1) \o "]: Missing \"Action\" or \"NotAction\"")
                         \in Range(verdict.errors)
         /\ \E before, after \in {<<>>} \cup {<<e>> : e \in VersionErrors \cup {IdError}} :
               verdict.errors =
                   before \o Sum([i \in 1..Len(Root(K.Statement).a) |->
                                     validateStatement(Root(K.Statement).a[i], i - 1)]).errors
                          \o after

\* the rule for Id
IdRule == HasKey(TheValue, K.Id) /\ Root(K.Id).t # "string" => IdError \in Range(verdict.errors)

\* the rule for the other keys of the root
OtherKeysRule ==
    \A key \in Range(TheValue.k) \ {K.Version, K.Id, K.Statement} :
        UnknownRoot(key) \in Range(verdict.warnings)

\* C24: at the root the validator reports an error if Version is missing,
\* not a string or not one of the two versions, and only a deprecation
\* warning for 2008-10-17; an error if Statement is missing, not an array or
\* empty, with no message of a statement in those cases; an error whenever
\* Id is present and not a string; a warning for every other key of the
\* root; and the messages of all the statements of a non-empty array, in
\* the order of their indices, each under "Statement[i]".
RootRules ==
    Validated /\ IsDocument => VersionRule /\ StatementRule /\ IdRule /\ OtherKeysRule

---------------------------------------------------------------------------
(* The Condition of a statement (SpecValidate).                            *)

TheCondition == Get(TheOnlyStatement, K.Condition)
HasCondition == OneStatement /\ HasKey(TheOnlyStatement, K.Condition)

\* the key without one leading ForAllValues: or ForAnyValue:
Stripped(key) ==
    IF At(key, 1, <<"F","o","r","A","l","l","V","a","l","u","e","s",":">>) THEN SubSeq(key, 14, Len(key))
    ELSE IF At(key, 1, <<"F","o","r","A","n","y","V","a","l","u","e",":">>) THEN SubSeq(key, 13, Len(key))
    ELSE key

UnknownOperator(key) == "Statement[0].Condition: Unknown condition operator \"" \o Text(key) \o "\""
BlockNotObject(key) == "Statement[0].Condition." \o Text(key) \o ": Must be an object"

\* C25: in validateCondition an operator key is accepted iff, without one
\* optional leading ForAllValues: or ForAnyValue:, it is in the vocabulary
\* of operators; every other key gets exactly one "Unknown condition
\* operator" error; every operator whose value is not a non-null, non-array
\* object gets one "Must be an object" error; there is no other error.
OperatorRule ==
    Validated /\ HasCondition /\ TheCondition.t = "object" =>
        /\ \A i \in 1..Len(TheCondition.k) :
              /\ Count(verdict.errors, UnknownOperator(TheCondition.k[i])) =
                    IF Stripped(TheCondition.k[i]) \in validConditionOperators THEN 0 ELSE 1
              /\ Count(verdict.errors, BlockNotObject(TheCondition.k[i])) =
                    IF TheCondition.a[i].t = "object" THEN 0 ELSE 1
        /\ Range(verdict.errors) \subseteq
              {UnknownOperator(key) : key \in Range(TheCondition.k)}
              \cup {BlockNotObject(key) : key \in Range(TheCondition.k)}

\* C26: a statement whose Condition is present and is not a non-null,
\* non-array object (null, a boolean, a number, a string or an array) gets
\* an error for that Condition.
ConditionMustBeObject ==
    Validated /\ HasCondition /\ TheCondition.t # "object" =>
        "Statement[0].Condition: Must be an object" \in Range(verdict.errors)

---------------------------------------------------------------------------
(* Action and Resource entries (SpecValidate).                             *)

\* the document is that of GoodStatement with another, truthy value for key
VariantOf(key) ==
    /\ OneStatement
    /\ TheValue = DocumentOf(TheOnlyStatement)
    /\ TheOnlyStatement.k = GoodStatement.k
    /\ \A other \in Range(GoodStatement.k) \ {key} :
          Get(TheOnlyStatement, other) = Get(GoodStatement, other)
    /\ Get(TheOnlyStatement, key) \notin {JStr(<<>>), JNum(0), JNull, JBool(FALSE)}

\* the entries of a value: those of an array, or the value alone
Entries(v) == IF v.t = "array" THEN v.a ELSE <<v>>

Under(key, i) == "Statement[0]." \o Text(key) \o "[" \o ToString(i) \o "]"

\* the errors and the warnings of the entry e at index i of Action
ActionEntryErrors(e, i) ==
    IF e.t # "string" THEN <<Under(K.Action, i) \o ": Must be a string">>
    ELSE IF ~Somewhere(e.s, <<":">>)
    THEN <<Under(K.Action, i) \o ": Invalid format \"" \o Text(e.s) \o "\". Must be \"service:action\"">>
    ELSE <<>>
ActionEntryWarnings(e, i) ==
    IF e.t # "string" \/ ~Somewhere(e.s, <<":">>) THEN <<>>
    ELSE IF Split(e.s, ":")[1] # <<"s","3">>
    THEN <<Under(K.Action, i) \o ": \"" \o Text(e.s) \o "\" is not an S3 action">>
    ELSE IF /\ Split(e.s, ":")[2] # <<"*">>
            /\ ~Somewhere(Split(e.s, ":")[2], <<"*">>)
            /\ e.s \notin validS3Actions
    THEN <<Under(K.Action, i) \o ": \"" \o Text(e.s) \o "\" may not be a valid S3 action">>
    ELSE <<>>

RECURSIVE ActionErrorsFrom(_, _), ActionWarningsFrom(_, _)
ActionErrorsFrom(list, i) ==
    IF i > Len(list) THEN <<>>
    ELSE ActionEntryErrors(list[i], i - 1) \o ActionErrorsFrom(list, i + 1)
ActionWarningsFrom(list, i) ==
    IF i > Len(list) THEN <<>>
    ELSE ActionEntryWarnings(list[i], i - 1) \o ActionWarningsFrom(list, i + 1)

\* C27: validateActions gives a bare string the verdict of the array of
\* that string; an empty array is an error; an entry that is not a string
\* is an error; a string entry without ":" (the bare "*" included) is an
\* error; an entry with ":" gives no error and at most one warning, "not an
\* S3 action" when its service is not s3, or "may not be a valid S3 action"
\* when its service is s3 and its action name is not "*", holds no "*" and
\* the entry is not a known S3 action.
ActionEntriesRule ==
    Validated /\ VariantOf(K.Action) =>
        IF Entries(Get(TheOnlyStatement, K.Action)) = <<>>
        THEN verdict.errors = <<"Statement[0].Action: Cannot be empty">> /\ verdict.warnings = <<>>
        ELSE /\ verdict.errors = ActionErrorsFrom(Entries(Get(TheOnlyStatement, K.Action)), 1)
             /\ verdict.warnings = ActionWarningsFrom(Entries(Get(TheOnlyStatement, K.Action)), 1)
             /\ \A i \in 1..Len(Entries(Get(TheOnlyStatement, K.Action))) :
                   Len(ActionEntryErrors(Entries(Get(TheOnlyStatement, K.Action))[i], i - 1))
                   + Len(ActionEntryWarnings(Entries(Get(TheOnlyStatement, K.Action))[i], i - 1)) <= 1

\* the bare string "s3:Bogus" has been validated and has the warning of
\* the first entry of an array
ActionEntriesRuleWitness ==
    /\ Validated
    /\ VariantOf(K.Action)
    /\ Get(TheOnlyStatement, K.Action) = JStr(<<"s","3",":","B","o","g","u","s">>)
    /\ verdict.errors = <<>>
    /\ verdict.warnings = <<"Statement[0].Action[0]: \"s3:Bogus\" may not be a valid S3 action">>

\* what follows arn:aws:s3::: in a resource
Rest(s) == SubSeq(s, 14, Len(s))
IsS3Arn(s) == At(s, 1, <<"a","r","n",":","a","w","s",":","s","3",":",":",":">>)

\* ^[a-z0-9][a-z0-9.-]*[a-z0-9]$
LooksLikeBucket(s) ==
    /\ Len(s) >= 2
    /\ \A j \in 1..Len(s) : s[j] \in Lower \cup Digit \cup {".", "-"}
    /\ s[1] \notin {".", "-"} /\ s[Len(s)] \notin {".", "-"}

\* the errors and the warnings of the entry e at index i of Resource
ResourceEntryErrors(e, i) ==
    IF e.t # "string" THEN <<Under(K.Resource, i) \o ": Must be a string">>
    ELSE IF e.s # <<"*">> /\ ~IsS3Arn(e.s)
    THEN <<Under(K.Resource, i) \o ": Must be a valid S3 ARN (arn:aws:s3:::...) or \"*\"">>
    ELSE IF e.s = <<"*">> THEN <<>>
    ELSE (IF Rest(e.s) = <<>> THEN <<Under(K.Resource, i) \o ": Missing bucket name in ARN">>
          ELSE IF Somewhere(Rest(e.s), <<"/","/">>)
          THEN <<Under(K.Resource, i) \o ": Invalid path - contains double slashes">>
          ELSE <<>>)
         \o (IF ~Somewhere(Rest(e.s), <<"/">>) /\ Len(Rest(e.s)) > 63
             THEN <<Under(K.Resource, i) \o ": Bucket name too long (max 63 characters)">>
             ELSE <<>>)
ResourceEntryWarnings(e, i) ==
    IF e.t = "string" /\ IsS3Arn(e.s) /\ ~Somewhere(Rest(e.s), <<"/">>) /\ ~LooksLikeBucket(Rest(e.s))
    THEN <<Under(K.Resource, i) \o ": Bucket name may not follow S3 naming rules">>
    ELSE <<>>

RECURSIVE ResourceErrorsFrom(_, _), ResourceWarningsFrom(_, _)
ResourceErrorsFrom(list, i) ==
    IF i > Len(list) THEN <<>>
    ELSE ResourceEntryErrors(list[i], i - 1) \o ResourceErrorsFrom(list, i + 1)
ResourceWarningsFrom(list, i) ==
    IF i > Len(list) THEN <<>>
    ELSE ResourceEntryWarnings(list[i], i - 1) \o ResourceWarningsFrom(list, i + 1)

\* C28: validateResources gives a bare string the verdict of the array of
\* that string; an empty array is an error; an entry is an error if it is
\* not a string, or is neither "*" nor prefixed with arn:aws:s3:::; for a
\* prefixed entry an empty remainder is an error, else a "//" is an error;
\* a remainder without "/" is an error if longer than 63 characters and a
\* warning if it fails ^[a-z0-9][a-z0-9.-]*[a-z0-9]$; a remainder with "/"
\* gets no bucket-name check.  A bucket name accepted by validateBucketName
\* gets neither error nor warning as a bucket-level ARN.
ResourceEntriesRule ==
    Validated /\ VariantOf(K.Resource) =>
        /\ IF Entries(Get(TheOnlyStatement, K.Resource)) = <<>>
           THEN verdict.errors = <<"Statement[0].Resource: Cannot be empty">>
                /\ verdict.warnings = <<>>
           ELSE /\ verdict.errors = ResourceErrorsFrom(Entries(Get(TheOnlyStatement, K.Resource)), 1)
                /\ verdict.warnings =
                      ResourceWarningsFrom(Entries(Get(TheOnlyStatement, K.Resource)), 1)
        /\ \A b \in BucketInputs :
              /\ validateBucketName(b).isValid
              /\ Get(TheOnlyStatement, K.Resource) = JStr(S.ArnPrefix \o b)
              => verdict.errors = <<>> /\ verdict.warnings = <<>>

\* the ARN of a bucket with the longest valid name has been validated
\* without a message
ResourceEntriesRuleWitness ==
    /\ Validated
    /\ VariantOf(K.Resource)
    /\ Get(TheOnlyStatement, K.Resource) = JStr(S.ArnPrefix \o Repeat("a", 63))
    /\ validateBucketName(Repeat("a", 63)).isValid
    /\ verdict.outcome = "valid"

---------------------------------------------------------------------------
(* The stored document and the keyboard shortcuts (SpecKeys).              *)

FirstGenerate == Notice("Generate a policy first before validating (Ctrl/Cmd+V)", "warning")

\* C29: currentPolicy is null at page load, becomes non-null by a
\* successful generatePolicy only and null again by a confirmed clearForm
\* only, so it is non-null exactly when a generatePolicy has succeeded and
\* no confirmed clearForm has followed the last success; a cancelled
\* clearForm, a failed generatePolicy and the validators leave it as it is;
\* the Ctrl/Cmd+S, Ctrl/Cmd+V and Ctrl/Cmd+C shortcuts get to
\* downloadPolicy, validatePolicy and copyPolicy only when it is non-null.
StoredDocument ==
    /\ currentPolicy = JNull
    /\ [][/\ GenerateStep /\ ~FailureCase => currentPolicy' # JNull
          /\ GenerateStep /\ FailureCase => currentPolicy' = currentPolicy
          /\ ClearFormConfirmed => currentPolicy' = JNull
          /\ currentPolicy' # currentPolicy =>
                (GenerateStep /\ ~FailureCase) \/ ClearFormConfirmed
          /\ ValidatePolicy \/ BlurBucketName \/ ClearFormCancelled =>
                currentPolicy' = currentPolicy
          /\ KeyDownloadPolicy /\ notification'.type = "success" => currentPolicy # JNull
          /\ KeyValidatePolicy /\ notification' # FirstGenerate => currentPolicy # JNull
          /\ (\E copied \in BOOLEAN : KeyCopyPolicy(copied)) /\ notification' # notification =>
                currentPolicy # JNull]_vars

\* a document is stored and Ctrl/Cmd+S has downloaded it
StoredDocumentWitness ==
    /\ currentPolicy # JNull
    /\ notification = Notice("Policy downloaded! (Ctrl/Cmd+S)", "success")

---------------------------------------------------------------------------
(* The debounced validation of the bucket name field.                      *)

\* at most one timer is pending, and it is the one timeout names
OnePending ==
    /\ Cardinality(timers) <= 1
    /\ \A t \in timers : t.id = timeout

\* call k was followed by another call less than Wait later
InBurst(k) == k < Len(called) /\ called[k + 1].at < called[k].at + Wait

InvokedFor(k) == \E i \in 1..Len(invoked) : invoked[i].call = k

\* every invocation is for the call that was the most recent one, with its
\* arguments, Wait or more after it
NotEarly ==
    \A i \in 1..Len(invoked) :
        /\ invoked[i].call = invoked[i].latest
        /\ invoked[i].args = called[invoked[i].latest].args
        /\ invoked[i].at >= called[invoked[i].latest].at + Wait

\* no call is invoked twice, and of a burst only the last call is invoked
OncePerBurst ==
    /\ \A i, j \in 1..Len(invoked) : invoked[i].call = invoked[j].call => i = j
    /\ \A i \in 1..Len(invoked) : ~InBurst(invoked[i].call)

\* C30: every call of the debounced function clears the pending timer and
\* sets a new one, due Wait later, so that at most one invocation is pending
\* at any time; the wrapped function is never invoked earlier than Wait
\* after the most recent call, and never for a call that was followed by
\* another one less than Wait later; every call is eventually either
\* followed by another call or by one invocation with its arguments, so
\* that once the calls have stopped no timer is left and the last call has
\* been invoked.
Debounced ==
    /\ [][called' # called =>
             timers' = {[id |-> timeout', due |-> now + Wait,
                         args |-> called'[Len(called')].args]}]_vars
    /\ [](OnePending /\ NotEarly /\ OncePerBurst)
    /\ \A k \in 1..MaxCalls : (Len(called) = k) ~> (InvokedFor(k) \/ Len(called) > k)
    /\ <>[](timers = {} /\ (called # <<>> => InvokedFor(Len(called))))

\* two calls less than Wait apart with different arguments, and the one
\* invocation that followed them
DebouncedWitness ==
    /\ Len(called) = 2
    /\ InBurst(1)
    /\ called[1].args # called[2].args
    /\ timers = {}
    /\ Len(invoked) = 1
    /\ invoked[1].args = called[2].args

=============================================================================
